--------------------------- MODULE DatapathProofs ---------------------------
(***************************************************************************)
(* Datapath, proved for every set of buffers, links, Vecs and deques and   *)
(* every capacity: buffers are never shared or lost.                       *)
(***************************************************************************)
EXTENDS Datapath, FiniteSetTheorems, TLAPS

-----------------------------------------------------------------------------
(* Moving buffers between two places.  h and g stand for `held' before and *)
(* after, as functions to functions: nothing here is about sequences.      *)

ExclusiveIn(h) ==
  \A p, r \in Place : \A i \in DOMAIN h[p], j \in DOMAIN h[r] :
    h[p][i] = h[r][j] => p = r /\ i = j

AllIn(h) == \A b \in Buf : \E p \in Place : \E i \in DOMAIN h[p] : h[p][i] = b

\* The c elements at p are split: ls stay (element i was at fs[i]) and lt go
\* to the end of r (element i was at ft[i]); the first m at r stay.
Split(h, g, p, r, c, m, ls, lt, fs, ft) ==
  /\ DOMAIN h[p] = 1 .. c  /\ DOMAIN h[r] = 1 .. m
  /\ DOMAIN g[p] = 1 .. ls /\ DOMAIN g[r] = 1 .. m + lt
  /\ \A i \in 1 .. ls : g[p][i] = h[p][fs[i]]
  /\ \A i \in 1 .. m  : g[r][i] = h[r][i]
  /\ \A i \in 1 .. lt : g[r][m + i] = h[p][ft[i]]
  /\ \A q \in Place \ {p, r} : g[q] = h[q]

\* fs and ft together are a bijection.
Bijective(c, ls, lt, fs, ft) ==
  /\ \A i, j \in 1 .. ls : fs[i] = fs[j] => i = j
  /\ \A i, j \in 1 .. lt : ft[i] = ft[j] => i = j
  /\ \A i \in 1 .. ls, j \in 1 .. lt : fs[i] # ft[j]
  /\ \A k \in 1 .. c :
       (\E i \in 1 .. ls : fs[i] = k) \/ (\E i \in 1 .. lt : ft[i] = k)

\* A split of p between p and r keeps every buffer, in one place.
LEMMA SplitKeeps ==
  ASSUME NEW h, NEW g, NEW p \in Place, NEW r \in Place, p # r,
         NEW c \in Nat, NEW m \in Nat, NEW ls \in Nat, NEW lt \in Nat,
         NEW fs \in [1 .. ls -> 1 .. c], NEW ft \in [1 .. lt -> 1 .. c],
         Split(h, g, p, r, c, m, ls, lt, fs, ft),
         Bijective(c, ls, lt, fs, ft)
  PROVE  (ExclusiveIn(h) => ExclusiveIn(g)) /\ (AllIn(h) => AllIn(g))
<1> DEFINE From(q, i, a, k) ==
             \/ q = p /\ i \in 1 .. ls /\ a = p /\ k = fs[i]
             \/ q = r /\ i \in 1 .. m /\ a = r /\ k = i
             \/ q = r /\ i - m \in 1 .. lt /\ i \in Int /\ a = p /\ k = ft[i - m]
             \/ q # p /\ q # r /\ a = q /\ k = i
<1>1. ASSUME NEW q \in Place, NEW i \in DOMAIN g[q]
      PROVE  \E a \in Place : \E k \in DOMAIN h[a] :
               From(q, i, a, k) /\ g[q][i] = h[a][k]
  <2>1. CASE q = p
    BY <2>1 DEF Split
  <2>2. CASE q = r /\ i \in 1 .. m
    BY <2>2 DEF Split
  <2>3. CASE q = r /\ i \notin 1 .. m
    <3>1. i \in Int /\ i - m \in 1 .. lt
      BY <2>3 DEF Split
    <3>2. g[r][m + (i - m)] = h[p][ft[i - m]] /\ m + (i - m) = i
      BY <3>1 DEF Split
    <3>3. ft[i - m] \in DOMAIN h[p]
      BY <3>1 DEF Split
    <3> QED BY <2>3, <3>1, <3>2, <3>3
  <2>4. CASE q # p /\ q # r
    BY <2>4 DEF Split
  <2> QED BY <2>1, <2>2, <2>3, <2>4
<1>2. ASSUME NEW q1, NEW i1, NEW q2, NEW i2, NEW a, NEW k,
             From(q1, i1, a, k), From(q2, i2, a, k)
      PROVE  q1 = q2 /\ i1 = i2
  BY <1>2 DEF Bijective
<1>3. ASSUME ExclusiveIn(h) PROVE ExclusiveIn(g)
  <2> SUFFICES ASSUME NEW q1 \in Place, NEW q2 \in Place,
                      NEW i1 \in DOMAIN g[q1], NEW i2 \in DOMAIN g[q2],
                      g[q1][i1] = g[q2][i2]
               PROVE  q1 = q2 /\ i1 = i2
    BY DEF ExclusiveIn
  <2> HIDE DEF From
  <2>1. PICK a1 \in Place : \E k \in DOMAIN h[a1] :
          From(q1, i1, a1, k) /\ g[q1][i1] = h[a1][k]
    BY <1>1
  <2>2. PICK k1 \in DOMAIN h[a1] : From(q1, i1, a1, k1) /\ g[q1][i1] = h[a1][k1]
    BY <2>1
  <2>3. PICK a2 \in Place : \E k \in DOMAIN h[a2] :
          From(q2, i2, a2, k) /\ g[q2][i2] = h[a2][k]
    BY <1>1
  <2>4. PICK k2 \in DOMAIN h[a2] : From(q2, i2, a2, k2) /\ g[q2][i2] = h[a2][k2]
    BY <2>3
  <2>5. h[a1][k1] = h[a2][k2]
    BY <2>2, <2>4
  <2>6. \A i \in DOMAIN h[a1], j \in DOMAIN h[a2] :
          h[a1][i] = h[a2][j] => a1 = a2 /\ i = j
    BY <1>3 DEF ExclusiveIn
  <2>7. a1 = a2 /\ k1 = k2
    BY <2>5, <2>6
  <2> QED BY <2>2, <2>4, <2>7, <1>2
<1>4. ASSUME AllIn(h) PROVE AllIn(g)
  <2> SUFFICES ASSUME NEW b \in Buf
               PROVE  \E q \in Place : \E i \in DOMAIN g[q] : g[q][i] = b
    BY DEF AllIn
  <2>0. PICK a \in Place : \E k \in DOMAIN h[a] : h[a][k] = b
    BY <1>4 DEF AllIn
  <2>1. PICK k \in DOMAIN h[a] : h[a][k] = b
    BY <2>0
  <2>2. CASE a = p
    <3>1. k \in 1 .. c
      BY <2>2 DEF Split
    <3>2. CASE \E i \in 1 .. ls : fs[i] = k
      <4>1. PICK i \in 1 .. ls : fs[i] = k
        BY <3>2
      <4>2. i \in DOMAIN g[p] /\ g[p][i] = b
        BY <2>1, <2>2, <4>1 DEF Split
      <4> QED BY <4>2
    <3>3. CASE \E i \in 1 .. lt : ft[i] = k
      <4>1. PICK i \in 1 .. lt : ft[i] = k
        BY <3>3
      <4>2. m + i \in DOMAIN g[r] /\ g[r][m + i] = b
        BY <2>1, <2>2, <4>1 DEF Split
      <4> QED BY <4>2
    <3> QED BY <3>1, <3>2, <3>3 DEF Bijective
  <2>3. CASE a = r
    <3>1. k \in DOMAIN g[r] /\ g[r][k] = b
      BY <2>1, <2>3 DEF Split
    <3> QED BY <3>1
  <2>4. CASE a # p /\ a # r
    BY <2>1, <2>4 DEF Split
  <2> QED BY <2>2, <2>3, <2>4
<1> QED BY <1>3, <1>4

-----------------------------------------------------------------------------
(* The three ways the code moves buffers.                                  *)

\* Every place holds a sequence of buffers.
HeldType == held \in [Place -> Seq(Buf)]

\* What a move of n buffers from p to r does to the lengths and the rest.
Moved(p, r, n) ==
  /\ Count(p)' = Count(p) - n /\ Count(r)' = Count(r) + n
  /\ \A q \in Place \ {p, r} : held'[q] = held[q]

\* Where the buffers go in such a move.
Flows(p, r) ==
  /\ At(p)' \subseteq At(p) /\ At(r)' \subseteq At(r) \cup At(p)
  /\ \A q \in Place \ {p, r} : At(q)' = At(q)

LEMMA HeldSeq ==
  ASSUME HeldType, NEW q \in Place
  PROVE  held[q] \in Seq(Buf) /\ Count(q) \in Nat /\ DOMAIN held[q] = 1 .. Count(q)
BY DEF HeldType, Count

LEMMA OwnershipIn ==
  /\ Ownership <=> ExclusiveIn(held) /\ AllIn(held)
  /\ Ownership' <=> ExclusiveIn(held') /\ AllIn(held')
BY DEF Ownership, Exclusive, NothingLost, ExclusiveIn, AllIn

\* Appending to a sequence.
LEMMA Appended ==
  ASSUME NEW u \in Seq(Buf), NEW t \in Seq(Buf)
  PROVE  /\ u \o t \in Seq(Buf) /\ Len(u \o t) = Len(u) + Len(t)
         /\ DOMAIN (u \o t) = 1 .. Len(u) + Len(t)
         /\ \A i \in 1 .. Len(u) : (u \o t)[i] = u[i]
         /\ \A i \in 1 .. Len(t) : (u \o t)[Len(u) + i] = t[i]
<1>1. /\ u \o t \in Seq(Buf) /\ Len(u \o t) = Len(u) + Len(t)
      /\ Len(u) \in Nat /\ Len(t) \in Nat
  OBVIOUS
<1>2. DOMAIN (u \o t) = 1 .. Len(u) + Len(t)
  BY <1>1
<1>3. ASSUME NEW i \in 1 .. Len(u) PROVE (u \o t)[i] = u[i]
  BY <1>1
<1>4. ASSUME NEW i \in 1 .. Len(t) PROVE (u \o t)[Len(u) + i] = t[i]
  BY <1>1
<1> QED BY <1>1, <1>2, <1>3, <1>4

\* s stays at p and t goes to the end of r, n elements: what all three moves
\* have in common.  fs and ft say where the elements were.
Shift(p, r, n, s, t, fs, ft) ==
  /\ s \in Seq(Buf) /\ t \in Seq(Buf) /\ Len(s) = Count(p) - n /\ Len(t) = n
  /\ held' = [held EXCEPT ![p] = s, ![r] = held[r] \o t]
  /\ fs \in [1 .. Count(p) - n -> 1 .. Count(p)]
  /\ ft \in [1 .. n -> 1 .. Count(p)]
  /\ \A i \in 1 .. Count(p) - n : s[i] = held[p][fs[i]]
  /\ \A i \in 1 .. n : t[i] = held[p][ft[i]]
  /\ Bijective(Count(p), Count(p) - n, n, fs, ft)

LEMMA ShiftMoves ==
  ASSUME HeldType, NEW p \in Place, NEW r \in Place, p # r,
         NEW n \in 0 .. Count(p), NEW s, NEW t, NEW fs, NEW ft,
         Shift(p, r, n, s, t, fs, ft)
  PROVE  HeldType' /\ Moved(p, r, n) /\ Flows(p, r) /\ (Ownership => Ownership')
<1>1. /\ held[r] \in Seq(Buf) /\ Count(p) \in Nat /\ Count(r) \in Nat
      /\ Count(p) - n \in Nat /\ n \in Nat
  BY HeldSeq
<1>2. /\ held[r] \o t \in Seq(Buf) /\ Len(held[r] \o t) = Count(r) + n
      /\ DOMAIN (held[r] \o t) = 1 .. Count(r) + n
      /\ \A i \in 1 .. Count(r) : (held[r] \o t)[i] = held[r][i]
      /\ \A i \in 1 .. n : (held[r] \o t)[Count(r) + i] = t[i]
  BY <1>1, Appended DEF Count, Shift
<1>3. /\ held'[p] = s /\ held'[r] = held[r] \o t
      /\ \A q \in Place \ {p, r} : held'[q] = held[q]
  BY DEF HeldType, Shift
<1>4. HeldType'
  BY <1>2 DEF HeldType, Shift
<1>5. Moved(p, r, n)
  BY <1>2, <1>3 DEF Moved, Count, Shift
<1>6. Split(held, held', p, r, Count(p), Count(r), Count(p) - n, n, fs, ft)
  <2>1. DOMAIN held[p] = 1 .. Count(p) /\ DOMAIN held[r] = 1 .. Count(r)
    BY HeldSeq
  <2>2. DOMAIN held'[p] = 1 .. Count(p) - n /\ DOMAIN held'[r] = 1 .. Count(r) + n
    BY <1>2, <1>3 DEF Shift
  <2> QED BY <1>2, <1>3, <2>1, <2>2, Zenon DEF Split, Shift
<1>7. Ownership => Ownership'
  BY <1>1, <1>6, SplitKeeps, OwnershipIn DEF Shift
<1>8. Flows(p, r)
  <2>1. /\ DOMAIN held[p] = 1 .. Count(p) /\ DOMAIN held[r] = 1 .. Count(r)
        /\ DOMAIN held'[p] = 1 .. Count(p) - n /\ DOMAIN held'[r] = 1 .. Count(r) + n
    BY <1>6 DEF Split
  <2>2. ASSUME NEW i \in DOMAIN held'[p] PROVE held'[p][i] \in At(p)
    <3>1. held'[p][i] = held[p][fs[i]] /\ fs[i] \in DOMAIN held[p]
      BY <1>3, <2>1, <2>2 DEF Shift
    <3> QED BY <3>1 DEF At
  <2>3. ASSUME NEW i \in DOMAIN held'[r] PROVE held'[r][i] \in At(r) \cup At(p)
    <3>1. CASE i \in 1 .. Count(r)
      BY <1>2, <1>3, <2>1, <3>1 DEF At
    <3>2. CASE i - Count(r) \in 1 .. n
      <4>1. held'[r][Count(r) + (i - Count(r))] = held[p][ft[i - Count(r)]]
        BY <1>2, <1>3, <3>2 DEF Shift
      <4>2. Count(r) + (i - Count(r)) = i /\ ft[i - Count(r)] \in DOMAIN held[p]
        BY <1>1, <2>1, <2>3, <3>2 DEF Shift
      <4> QED BY <4>1, <4>2 DEF At
    <3> QED BY <1>1, <2>1, <2>3, <3>1, <3>2
  <2>4. ASSUME NEW q \in Place \ {p, r} PROVE At(q)' = At(q)
    BY <1>3 DEF At
  <2> QED BY <2>2, <2>3, <2>4 DEF Flows, At
<1> QED BY <1>4, <1>5, <1>7, <1>8

\* pop_front in a loop, or peek and release: a prefix moves.
LEMMA FrontMoves ==
  ASSUME HeldType, NEW p \in Place, NEW r \in Place, p # r,
         NEW n \in 0 .. Count(p), MoveFront(p, r, n)
  PROVE  HeldType' /\ Moved(p, r, n) /\ Flows(p, r) /\ (Ownership => Ownership')
<1> DEFINE s == SubSeq(held[p], n + 1, Len(held[p]))
           t == SubSeq(held[p], 1, n)
           fs == [i \in 1 .. Count(p) - n |-> i + n]
           ft == [i \in 1 .. n |-> i]
<1>1. held[p] \in Seq(Buf) /\ Count(p) \in Nat /\ Count(p) - n \in Nat /\ n \in Nat
  BY HeldSeq
<1>2. /\ s \in Seq(Buf) /\ Len(s) = Count(p) - n
      /\ \A i \in 1 .. Count(p) - n : s[i] = held[p][i + n]
  BY <1>1 DEF Count
<1>3. t \in Seq(Buf) /\ Len(t) = n /\ \A i \in 1 .. n : t[i] = held[p][i]
  BY <1>1 DEF Count
<1>4. held' = [held EXCEPT ![p] = s, ![r] = held[r] \o t]
  BY DEF MoveFront, HeldType
<1>5. /\ fs \in [1 .. Count(p) - n -> 1 .. Count(p)] /\ ft \in [1 .. n -> 1 .. Count(p)]
      /\ Bijective(Count(p), Count(p) - n, n, fs, ft)
  BY <1>1 DEF Bijective
<1>6. /\ \A i \in 1 .. Count(p) - n : s[i] = held[p][fs[i]]
      /\ \A i \in 1 .. n : t[i] = held[p][ft[i]]
  BY <1>2, <1>3
<1> HIDE DEF s, t, fs, ft
<1>7. s \in Seq(Buf) /\ t \in Seq(Buf) /\ Len(s) = Count(p) - n /\ Len(t) = n
  BY <1>2, <1>3
<1>8. Shift(p, r, n, s, t, fs, ft)
  BY <1>4, <1>5, <1>6, <1>7 DEF Shift
<1> QED BY <1>8, ShiftMoves

\* drain(len - n ..): a suffix moves, in order.
LEMMA BackMoves ==
  ASSUME HeldType, NEW p \in Place, NEW r \in Place, p # r,
         NEW n \in 0 .. Count(p), MoveBack(p, r, n)
  PROVE  HeldType' /\ Moved(p, r, n) /\ Flows(p, r) /\ (Ownership => Ownership')
<1> DEFINE s == SubSeq(held[p], 1, Len(held[p]) - n)
           t == SubSeq(held[p], Count(p) - n + 1, Count(p))
           fs == [i \in 1 .. Count(p) - n |-> i]
           ft == [i \in 1 .. n |-> Count(p) - n + i]
<1>1. held[p] \in Seq(Buf) /\ Count(p) \in Nat /\ Count(p) - n \in Nat /\ n \in Nat
  BY HeldSeq
<1>2. /\ s \in Seq(Buf) /\ Len(s) = Count(p) - n
      /\ \A i \in 1 .. Count(p) - n : s[i] = held[p][i]
  BY <1>1 DEF Count
<1>3. /\ t \in Seq(Buf) /\ Len(t) = n
      /\ \A i \in 1 .. n : t[i] = held[p][Count(p) - n + i]
  BY <1>1 DEF Count
<1>4. held' = [held EXCEPT ![p] = s, ![r] = held[r] \o t]
  BY DEF MoveBack, HeldType
<1>5. /\ fs \in [1 .. Count(p) - n -> 1 .. Count(p)] /\ ft \in [1 .. n -> 1 .. Count(p)]
      /\ Bijective(Count(p), Count(p) - n, n, fs, ft)
  <2>1. \A k \in 1 .. Count(p) :
          \/ k \in 1 .. Count(p) - n /\ fs[k] = k
          \/ k - (Count(p) - n) \in 1 .. n /\ ft[k - (Count(p) - n)] = k
    BY <1>1
  <2>2. \A k \in 1 .. Count(p) :
          (\E i \in 1 .. Count(p) - n : fs[i] = k) \/ (\E i \in 1 .. n : ft[i] = k)
    BY <2>1, Zenon
  <2>3. /\ \A i, j \in 1 .. Count(p) - n : fs[i] = fs[j] => i = j
        /\ \A i, j \in 1 .. n : ft[i] = ft[j] => i = j
        /\ \A i \in 1 .. Count(p) - n, j \in 1 .. n : fs[i] # ft[j]
    BY <1>1
  <2>4. /\ fs \in [1 .. Count(p) - n -> 1 .. Count(p)]
        /\ ft \in [1 .. n -> 1 .. Count(p)]
    BY <1>1
  <2> QED BY <2>2, <2>3, <2>4 DEF Bijective
<1>6. /\ \A i \in 1 .. Count(p) - n : s[i] = held[p][fs[i]]
      /\ \A i \in 1 .. n : t[i] = held[p][ft[i]]
  BY <1>2, <1>3
<1> HIDE DEF s, t, fs, ft
<1>7. s \in Seq(Buf) /\ t \in Seq(Buf) /\ Len(s) = Count(p) - n /\ Len(t) = n
  BY <1>2, <1>3
<1>8. Shift(p, r, n, s, t, fs, ft)
  BY <1>4, <1>5, <1>6, <1>7 DEF Shift
<1> QED BY <1>8, ShiftMoves

\* pop in a loop: a suffix moves, reversed.
LEMMA PoppedMoves ==
  ASSUME HeldType, NEW p \in Place, NEW r \in Place, p # r,
         NEW n \in 0 .. Count(p), MovePopped(p, r, n)
  PROVE  HeldType' /\ Moved(p, r, n) /\ Flows(p, r) /\ (Ownership => Ownership')
<1> DEFINE s == SubSeq(held[p], 1, Len(held[p]) - n)
           t == [k \in 1 .. n |-> held[p][Count(p) + 1 - k]]
           fs == [i \in 1 .. Count(p) - n |-> i]
           ft == [i \in 1 .. n |-> Count(p) + 1 - i]
<1>1. held[p] \in Seq(Buf) /\ Count(p) \in Nat /\ Count(p) - n \in Nat /\ n \in Nat
  BY HeldSeq
<1>2. /\ s \in Seq(Buf) /\ Len(s) = Count(p) - n
      /\ \A i \in 1 .. Count(p) - n : s[i] = held[p][i]
  BY <1>1 DEF Count
<1>3. /\ t \in Seq(Buf) /\ Len(t) = n
      /\ \A i \in 1 .. n : t[i] = held[p][Count(p) + 1 - i]
  <2>1. \A i \in 1 .. n : held[p][Count(p) + 1 - i] \in Buf
    BY <1>1 DEF Count
  <2> QED BY <1>1, <2>1
<1>4. held' = [held EXCEPT ![p] = s, ![r] = held[r] \o t]
  BY DEF MovePopped, HeldType
<1>5. /\ fs \in [1 .. Count(p) - n -> 1 .. Count(p)] /\ ft \in [1 .. n -> 1 .. Count(p)]
      /\ Bijective(Count(p), Count(p) - n, n, fs, ft)
  <2>1. \A k \in 1 .. Count(p) :
          \/ k \in 1 .. Count(p) - n /\ fs[k] = k
          \/ Count(p) + 1 - k \in 1 .. n /\ ft[Count(p) + 1 - k] = k
    BY <1>1
  <2>2. \A k \in 1 .. Count(p) :
          (\E i \in 1 .. Count(p) - n : fs[i] = k) \/ (\E i \in 1 .. n : ft[i] = k)
    BY <2>1, Zenon
  <2>3. /\ \A i, j \in 1 .. Count(p) - n : fs[i] = fs[j] => i = j
        /\ \A i, j \in 1 .. n : ft[i] = ft[j] => i = j
        /\ \A i \in 1 .. Count(p) - n, j \in 1 .. n : fs[i] # ft[j]
    BY <1>1
  <2>4. /\ fs \in [1 .. Count(p) - n -> 1 .. Count(p)]
        /\ ft \in [1 .. n -> 1 .. Count(p)]
    BY <1>1
  <2> QED BY <2>2, <2>3, <2>4 DEF Bijective
<1>6. /\ \A i \in 1 .. Count(p) - n : s[i] = held[p][fs[i]]
      /\ \A i \in 1 .. n : t[i] = held[p][ft[i]]
  BY <1>2, <1>3
<1> HIDE DEF s, t, fs, ft
<1>7. s \in Seq(Buf) /\ t \in Seq(Buf) /\ Len(s) = Count(p) - n /\ Len(t) = n
  BY <1>2, <1>3
<1>8. Shift(p, r, n, s, t, fs, ft)
  BY <1>4, <1>5, <1>6, <1>7 DEF Shift
<1> QED BY <1>8, ShiftMoves

-----------------------------------------------------------------------------
(* The invariant: types and capacities, ownership, no panic of the library. *)

DpInv == DpTypeOK /\ Ownership /\ NoLibraryPanic

\* The part of the invariant about held, and the part about the rest.
Bounds ==
  /\ \A d \in Deque : Count(D(d)) <= PendingLen
  /\ \A l \in Link :
       /\ Count(Fq(l)) <= RingSize /\ Count(Rx(l)) <= RingSize
       /\ Count(Tx(l)) <= RingSize /\ Count(NicTx(l)) + Count(Cq(l)) <= RingSize

HeldOK == HeldType /\ Bounds /\ Ownership

RestOK ==
  /\ data \in [Buf -> Packet \cup {NoPacket}]
  /\ rxAsleep \in [Link -> BOOLEAN] /\ txAsleep \in [Link -> BOOLEAN]
  /\ kicking \subseteq Link
  /\ lastSent \in [Link -> Packet \cup {NoPacket}]
  /\ crash \in {"none", "sendto"}

LEMMA InvParts == (DpInv <=> HeldOK /\ RestOK) /\ (DpInv' <=> HeldOK' /\ RestOK')
BY DEF DpInv, DpTypeOK, NoLibraryPanic, HeldOK, RestOK, HeldType, Bounds

\* The names of the places, and that no two are the same.
LEMMA Places ==
  /\ Pool \in Place
  /\ \A v \in Vec : V(v) \in Place
  /\ \A d \in Deque : D(d) \in Place
  /\ \A l \in Link : /\ Fq(l) \in Place /\ NicRx(l) \in Place /\ Rx(l) \in Place
                     /\ Tx(l) \in Place /\ NicTx(l) \in Place /\ Cq(l) \in Place
BY DEF Place

\* A step that moves nothing keeps the held part.
LEMMA HeldSame == ASSUME HeldOK, UNCHANGED held PROVE HeldOK'
<1>1. HeldType'
  BY DEF HeldOK, HeldType
<1>2. Bounds'
  BY DEF HeldOK, Bounds, Count
<1>3. Ownership'
  BY OwnershipIn DEF HeldOK
<1> QED BY <1>1, <1>2, <1>3 DEF HeldOK

\* Capacities hold after a move when the n buffers fit where they went.
Fits(p, r, n) ==
  /\ \A d \in Deque : r = D(d) => Count(r) + n <= PendingLen
  /\ \A l \in Link :
       /\ r = Fq(l) \/ r = Rx(l) \/ r = Tx(l) => Count(r) + n <= RingSize
       /\ r = NicTx(l) => p # Cq(l) /\ Count(NicTx(l)) + Count(Cq(l)) + n <= RingSize
       /\ r = Cq(l) => p = NicTx(l)

LEMMA MovedBounds ==
  ASSUME HeldOK, NEW p \in Place, NEW r \in Place, p # r, NEW n \in 0 .. Count(p),
         Moved(p, r, n), Fits(p, r, n)
  PROVE  Bounds'
<1>1. HeldType
  BY DEF HeldOK
<1>2. ASSUME NEW q \in Place
      PROVE  /\ Count(q) \in Nat /\ n \in Nat
             /\ Count(q)' = IF q = p THEN Count(q) - n
                            ELSE IF q = r THEN Count(q) + n ELSE Count(q)
  <2>1. Count(q) \in Nat /\ Count(p) \in Nat
    BY <1>1, HeldSeq
  <2>2. q # p /\ q # r => Count(q)' = Count(q)
    BY DEF Moved, Count
  <2> QED BY <2>1, <2>2 DEF Moved
<1>3. ASSUME NEW d \in Deque PROVE Count(D(d))' <= PendingLen
  <2>1. D(d) \in Place /\ Count(D(d)) <= PendingLen
    BY Places DEF HeldOK, Bounds
  <2> QED BY <1>2, <2>1, DatapathAssumption DEF Fits
<1>4. ASSUME NEW l \in Link, NEW q \in {Fq(l), Rx(l), Tx(l)}
      PROVE  Count(q)' <= RingSize
  <2>1. q \in Place /\ Count(q) <= RingSize
    BY Places DEF HeldOK, Bounds
  <2> QED BY <1>2, <2>1, DatapathAssumption DEF Fits
<1>5. ASSUME NEW l \in Link PROVE Count(NicTx(l))' + Count(Cq(l))' <= RingSize
  <2>1. NicTx(l) \in Place /\ Cq(l) \in Place /\ NicTx(l) # Cq(l)
    BY Places DEF NicTx, Cq
  <2>2. Count(NicTx(l)) + Count(Cq(l)) <= RingSize
    BY DEF HeldOK, Bounds
  <2> QED BY <1>2, <2>1, <2>2, DatapathAssumption DEF Fits
<1> QED BY <1>3, <1>4, <1>5 DEF Bounds

\* A move to where there is room keeps the held part, whichever end it takes.
LEMMA MoveKeeps ==
  ASSUME HeldOK, NEW p \in Place, NEW r \in Place, p # r, NEW n \in 0 .. Count(p),
         MoveFront(p, r, n) \/ MoveBack(p, r, n) \/ MovePopped(p, r, n),
         Fits(p, r, n)
  PROVE  HeldOK' /\ Moved(p, r, n) /\ Flows(p, r)
<1>1. HeldType /\ Ownership
  BY DEF HeldOK
<1>2. HeldType' /\ Moved(p, r, n) /\ Flows(p, r) /\ Ownership'
  <2>1. CASE MoveFront(p, r, n)
    BY <1>1, <2>1, FrontMoves
  <2>2. CASE MoveBack(p, r, n)
    BY <1>1, <2>2, BackMoves
  <2>3. CASE MovePopped(p, r, n)
    BY <1>1, <2>3, PoppedMoves
  <2> QED BY <2>1, <2>2, <2>3
<1>3. Bounds'
  BY <1>2, MovedBounds
<1> QED BY <1>2, <1>3 DEF HeldOK

\* The counts a step starts from.
LEMMA Counts ==
  ASSUME HeldOK
  PROVE  /\ \A q \in Place : Count(q) \in Nat
         /\ \A d \in Deque : D(d) \in Place /\ Count(D(d)) <= PendingLen
         /\ \A l \in Link :
              /\ Fq(l) \in Place /\ NicRx(l) \in Place /\ Rx(l) \in Place
              /\ Tx(l) \in Place /\ NicTx(l) \in Place /\ Cq(l) \in Place
              /\ Count(Fq(l)) <= RingSize /\ Count(Rx(l)) <= RingSize
              /\ Count(Tx(l)) <= RingSize
              /\ Count(NicTx(l)) + Count(Cq(l)) <= RingSize
BY Places, HeldSeq DEF HeldOK, Bounds

LEMMA LeastFacts ==
  ASSUME NEW m \in Nat, NEW n \in Nat
  PROVE  /\ Least(m, n) \in Nat /\ Least(m, n) <= m /\ Least(m, n) <= n
BY DEF Least

\* What reserve grants fits, and is never more than was asked for.
LEMMA ReserveFits ==
  ASSUME HeldOK, NEW q \in Place, NEW n \in Nat, Count(q) <= RingSize
  PROVE  Reserve(q, n) \in 0 .. n /\ Count(q) + Reserve(q, n) <= RingSize
BY Counts, DatapathAssumption DEF Reserve

-----------------------------------------------------------------------------
(* What each call moves.                                                   *)

\* fill never takes more buffers than the Vec has, nor gives more than fit.
LEMMA FillMoves ==
  ASSUME HeldOK, NEW l \in Link, NEW v \in Vec, NEW b \in Nat, Fill(l, v, b)
  PROVE  /\ Filled(l, v, b) \in Nat /\ Filled(l, v, b) <= b
         /\ HeldOK' /\ Moved(V(v), Fq(l), Filled(l, v, b)) /\ Flows(V(v), Fq(l))
         /\ UNCHANGED crash
<1> DEFINE n == Filled(l, v, b)
<1>1. V(v) \in Place /\ Fq(l) \in Place /\ V(v) # Fq(l)
  BY Places DEF V, Fq
<1>2. Count(V(v)) \in Nat /\ Count(Fq(l)) <= RingSize
  BY <1>1, Counts
<1>3. FillBatch(v, b) \in Nat /\ FillBatch(v, b) <= Count(V(v)) /\ FillBatch(v, b) <= b
  BY <1>2, LeastFacts DEF FillBatch
<1>4. n \in 0 .. Count(V(v)) /\ n \in Nat /\ n <= b /\ Count(Fq(l)) + n <= RingSize
  BY <1>1, <1>2, <1>3, ReserveFits DEF Filled
<1>5. MovePopped(V(v), Fq(l), n) /\ UNCHANGED crash
  <2>1. ~ (n > Count(V(v)))
    BY <1>2, <1>4
  <2> QED BY <2>1 DEF Fill
<1>6. Fits(V(v), Fq(l), n)
  BY <1>4 DEF Fits, Fq, D, NicTx, Cq
<1>7. HeldOK' /\ Moved(V(v), Fq(l), n) /\ Flows(V(v), Fq(l))
  BY <1>1, <1>4, <1>5, <1>6, MoveKeeps
<1> QED BY <1>4, <1>5, <1>7

LEMMA ServiceMoves ==
  ASSUME HeldOK, NEW l \in Link, NEW v \in Vec, NEW b \in Nat, Service(l, v, b)
  PROVE  /\ Serviced(l, v, b) \in 0 .. Count(Cq(l))
         /\ HeldOK' /\ Moved(Cq(l), V(v), Serviced(l, v, b)) /\ Flows(Cq(l), V(v))
<1> DEFINE n == Serviced(l, v, b)
<1>1. V(v) \in Place /\ Cq(l) \in Place /\ V(v) # Cq(l)
  BY Places DEF V, Cq
<1>2. Count(V(v)) \in Nat /\ Count(Cq(l)) \in Nat
  BY <1>1, Counts
<1>3. n \in 0 .. Count(Cq(l))
  <2>1. VecRoom(v) \in Nat
    BY <1>2, DatapathAssumption DEF VecRoom
  <2>2. Least(VecRoom(v), b) \in Nat
    BY <2>1, LeastFacts
  <2>3. n \in Nat /\ n <= Count(Cq(l))
    BY <1>2, <2>2, LeastFacts DEF Serviced
  <2> QED BY <1>2, <2>3
<1>4. MoveFront(Cq(l), V(v), n)
  BY DEF Service
<1>5. Fits(Cq(l), V(v), n)
  BY DEF Fits, V, D, Fq, Rx, Tx, NicTx, Cq
<1>6. HeldOK' /\ Moved(Cq(l), V(v), n) /\ Flows(Cq(l), V(v))
  BY <1>1, <1>3, <1>4, <1>5, MoveKeeps
<1> QED BY <1>3, <1>6

\* try_recv leaves room in the deque: push_back never wraps.
LEMMA RecvMoves ==
  ASSUME HeldOK, NEW l \in Link, NEW d \in Deque, NEW b \in Nat, TryRecv(l, d, b)
  PROVE  /\ Received(l, d, b) \in 0 .. Count(Rx(l))
         /\ HeldOK' /\ Moved(Rx(l), D(d), Received(l, d, b)) /\ Flows(Rx(l), D(d))
         /\ MoveFront(Rx(l), D(d), Received(l, d, b)) /\ UNCHANGED crash
<1> DEFINE n == Received(l, d, b)
<1>1. Rx(l) \in Place /\ D(d) \in Place /\ Rx(l) # D(d)
  BY Places DEF Rx, D
<1>2. Count(Rx(l)) \in Nat /\ Count(D(d)) \in Nat /\ Count(D(d)) <= PendingLen
  BY <1>1, Counts
<1>3. n \in 0 .. Count(Rx(l)) /\ Count(D(d)) + n <= PendingLen
  <2>1. PendingLen - Count(D(d)) \in Nat
    BY <1>2, DatapathAssumption
  <2>2. RecvBatch(d, b) \in Nat /\ RecvBatch(d, b) <= PendingLen - Count(D(d))
    BY <2>1, LeastFacts DEF RecvBatch
  <2>3. n \in Nat /\ n <= RecvBatch(d, b) /\ n <= Count(Rx(l))
    BY <1>2, <2>2, LeastFacts DEF Received
  <2> QED BY <1>2, <2>1, <2>2, <2>3, DatapathAssumption
<1>4. MoveFront(Rx(l), D(d), n) /\ UNCHANGED crash
  <2>1. ~ (Count(D(d)) + n > PendingLen)
    BY <1>2, <1>3, DatapathAssumption
  <2> QED BY <2>1 DEF TryRecv
<1>5. Fits(Rx(l), D(d), n)
  BY <1>3 DEF Fits, D, Fq, Rx, Tx, NicTx, Cq
<1>6. HeldOK' /\ Moved(Rx(l), D(d), n) /\ Flows(Rx(l), D(d))
  BY <1>1, <1>3, <1>4, <1>5, MoveKeeps
<1> QED BY <1>3, <1>4, <1>6

LEMMA SendMoves ==
  ASSUME HeldOK, NEW l \in Link, NEW d \in Deque, NEW b \in Nat, TrySend(l, d, b)
  PROVE  /\ Sent(l, d, b) \in 0 .. Count(D(d))
         /\ HeldOK' /\ Moved(D(d), Tx(l), Sent(l, d, b)) /\ Flows(D(d), Tx(l))
<1> DEFINE n == Sent(l, d, b)
<1>1. Tx(l) \in Place /\ D(d) \in Place /\ Tx(l) # D(d)
  BY Places DEF Tx, D
<1>2. Count(D(d)) \in Nat /\ Count(Tx(l)) <= RingSize
  BY <1>1, Counts
<1>3. SendBatch(d, b) \in Nat /\ SendBatch(d, b) <= Count(D(d))
  BY <1>2, LeastFacts DEF SendBatch
<1>4. n \in 0 .. Count(D(d)) /\ Count(Tx(l)) + n <= RingSize
  BY <1>1, <1>2, <1>3, ReserveFits DEF Sent
<1>5. MoveFront(D(d), Tx(l), n)
  BY DEF TrySend
<1>6. Fits(D(d), Tx(l), n)
  BY <1>4 DEF Fits, D, Tx, NicTx, Cq
<1>7. HeldOK' /\ Moved(D(d), Tx(l), n) /\ Flows(D(d), Tx(l))
  BY <1>1, <1>4, <1>5, <1>6, MoveKeeps
<1> QED BY <1>4, <1>7

\* A drain moves no more buffers than there are.
LEMMA PoolMoves ==
  ASSUME HeldOK, NEW v \in Vec, NEW n \in Nat
  PROVE  /\ PoolGet(v, n) =>
              /\ Least(n, Count(Pool)) \in Nat
              /\ HeldOK' /\ Moved(Pool, V(v), Least(n, Count(Pool))) /\ Flows(Pool, V(v))
         /\ PoolPut(v, n) =>
              /\ Least(n, Count(V(v))) \in Nat
              /\ HeldOK' /\ Moved(V(v), Pool, Least(n, Count(V(v)))) /\ Flows(V(v), Pool)
<1>1. V(v) \in Place /\ Pool \in Place /\ V(v) # Pool
  BY Places DEF V, Pool
<1>2. Count(V(v)) \in Nat /\ Count(Pool) \in Nat
  BY <1>1, Counts
<1>3. ASSUME NEW m \in Nat PROVE Least(n, m) \in 0 .. m /\ Least(n, m) \in Nat
  BY <1>3, LeastFacts
<1>4. \A m \in Nat : Fits(Pool, V(v), m) /\ Fits(V(v), Pool, m)
  BY DEF Fits, V, Pool, D, Fq, Rx, Tx, NicTx, Cq
<1>5. ASSUME PoolGet(v, n)
      PROVE  /\ HeldOK' /\ Moved(Pool, V(v), Least(n, Count(Pool))) /\ Flows(Pool, V(v))
  <2>1. MoveBack(Pool, V(v), Least(n, Count(Pool)))
    BY <1>5 DEF PoolGet
  <2> QED BY <1>1, <1>2, <1>3, <1>4, <2>1, MoveKeeps
<1>6. ASSUME PoolPut(v, n)
      PROVE  /\ HeldOK' /\ Moved(V(v), Pool, Least(n, Count(V(v)))) /\ Flows(V(v), Pool)
  <2>1. MoveBack(V(v), Pool, Least(n, Count(V(v))))
    BY <1>6 DEF PoolPut
  <2> QED BY <1>1, <1>2, <1>3, <1>4, <2>1, MoveKeeps
<1> QED BY <1>2, <1>3, <1>5, <1>6

LEMMA DiscardMoves ==
  ASSUME HeldOK, NEW v \in Vec, NEW d \in Deque, Discard(d, v)
  PROVE  /\ Count(D(d)) \in Nat
         /\ HeldOK' /\ Moved(D(d), V(v), Count(D(d))) /\ Flows(D(d), V(v))
<1>1. V(v) \in Place /\ D(d) \in Place /\ V(v) # D(d)
  BY Places DEF V, D
<1>2. Count(D(d)) \in Nat /\ Count(D(d)) \in 0 .. Count(D(d))
  BY <1>1, Counts
<1>3. MoveFront(D(d), V(v), Count(D(d)))
  BY DEF Discard
<1>4. Fits(D(d), V(v), Count(D(d)))
  BY DEF Fits, V, D, Fq, Rx, Tx, NicTx, Cq
<1> QED BY <1>1, <1>2, <1>3, <1>4, MoveKeeps

LEMMA GenerateMoves ==
  ASSUME HeldOK, NEW v \in Vec, NEW d \in Deque, NEW n \in Nat, NEW p \in Packet,
         Generate(v, d, n, p)
  PROVE  n \in 0 .. Count(V(v)) /\ HeldOK' /\ Moved(V(v), D(d), n) /\ Flows(V(v), D(d))
<1>1. V(v) \in Place /\ D(d) \in Place /\ V(v) # D(d)
  BY Places DEF V, D
<1>2. Count(V(v)) \in Nat /\ Count(D(d)) \in Nat /\ Count(D(d)) <= PendingLen
  BY <1>1, Counts
<1>3. n \in 0 .. Count(V(v)) /\ Count(D(d)) + n <= PendingLen
  <2>1. PendingLen - Count(D(d)) \in Nat
    BY <1>2, DatapathAssumption
  <2>2. n <= Least(PendingLen - Count(D(d)), Count(V(v)))
    BY DEF Generate
  <2>3. n <= PendingLen - Count(D(d)) /\ n <= Count(V(v))
    BY <1>2, <2>1, <2>2 DEF Least
  <2> QED BY <1>2, <2>3, DatapathAssumption
<1>4. MovePopped(V(v), D(d), n)
  BY DEF Generate
<1>5. Fits(V(v), D(d), n)
  BY <1>3 DEF Fits, D, Fq, Rx, Tx, NicTx, Cq
<1> QED BY <1>1, <1>3, <1>4, <1>5, MoveKeeps

-----------------------------------------------------------------------------
(* The calls keep the invariant.                                           *)

LEMMA UmemInv ==
  ASSUME DpInv, NEW l \in Link, NEW v \in Vec, NEW b \in Nat,
         Fill(l, v, b) \/ Service(l, v, b)
  PROVE  DpInv'
<1>1. HeldOK /\ RestOK
  BY InvParts
<1>2. HeldOK'
  BY <1>1, FillMoves, ServiceMoves
<1>3. RestOK'
  <2>1. CASE Fill(l, v, b)
    BY <1>1, <2>1, FillMoves DEF RestOK, Fill
  <2>2. CASE Service(l, v, b)
    BY <1>1, <2>2 DEF RestOK, Service
  <2> QED BY <2>1, <2>2
<1> QED BY <1>2, <1>3, InvParts

LEMMA SocketInv ==
  ASSUME DpInv, NEW l \in Link, NEW d \in Deque, NEW b \in Nat,
         TryRecv(l, d, b) \/ TrySend(l, d, b)
  PROVE  DpInv'
<1>1. HeldOK /\ RestOK
  BY InvParts
<1>2. HeldOK'
  BY <1>1, RecvMoves, SendMoves
<1>3. RestOK'
  <2>1. CASE TryRecv(l, d, b)
    BY <1>1, <2>1, RecvMoves DEF RestOK, TryRecv
  <2>2. CASE TrySend(l, d, b)
    BY <1>1, <2>2 DEF RestOK, TrySend
  <2> QED BY <2>1, <2>2
<1> QED BY <1>2, <1>3, InvParts

\* Neither the sendto nor the poll moves a buffer.
LEMMA WakeupInv ==
  ASSUME DpInv, NEW l \in Link, WakeupIfRequired(l)
  PROVE  DpInv'
<1>1. HeldOK /\ RestOK
  BY InvParts
<1>2. HeldOK'
  BY <1>1, HeldSame DEF WakeupIfRequired
<1>3. RestOK'
  BY <1>1 DEF RestOK, WakeupIfRequired
<1> QED BY <1>2, <1>3, InvParts

LEMMA WakeInv ==
  ASSUME DpInv, NEW l \in Link, NEW ok \in BOOLEAN, Wake(l, ok)
  PROVE  DpInv'
<1>1. HeldOK /\ RestOK
  BY InvParts
<1>2. HeldOK'
  BY <1>1, HeldSame DEF Wake
<1>3. RestOK'
  BY <1>1 DEF RestOK, Wake
<1> QED BY <1>2, <1>3, InvParts

\* The pool, and what programs do with the buffers in their hands.
LEMMA PoolInv ==
  ASSUME DpInv, NEW v \in Vec, NEW n \in Nat, PoolGet(v, n) \/ PoolPut(v, n)
  PROVE  DpInv'
<1>1. HeldOK /\ RestOK
  BY InvParts
<1>2. HeldOK'
  BY <1>1, PoolMoves
<1>3. RestOK'
  BY <1>1 DEF RestOK, PoolGet, PoolPut
<1> QED BY <1>2, <1>3, InvParts

LEMMA QueueInv ==
  ASSUME DpInv, NEW v \in Vec, NEW d \in Deque, NEW n \in Nat,
         Discard(d, v) \/ \E p \in Packet : Generate(v, d, n, p)
  PROVE  DpInv'
<1>1. HeldOK /\ RestOK
  BY InvParts
<1>2. HeldOK'
  BY <1>1, DiscardMoves, GenerateMoves
<1>3. RestOK'
  BY <1>1 DEF RestOK, Discard, Generate
<1> QED BY <1>2, <1>3, InvParts

LEMMA RewriteInv ==
  ASSUME DpInv, NEW d \in Deque, NEW frame \in [At(D(d)) -> Packet], Rewrite(d, frame)
  PROVE  DpInv'
<1>1. HeldOK /\ RestOK
  BY InvParts
<1>2. HeldOK'
  BY <1>1, HeldSame DEF Rewrite
<1>3. data' \in [Buf -> Packet \cup {NoPacket}]
  BY <1>1 DEF RestOK, Rewrite
<1>4. RestOK'
  BY <1>1, <1>3 DEF RestOK, Rewrite
<1> QED BY <1>2, <1>4, InvParts

-----------------------------------------------------------------------------
(* The kernel's steps.                                                     *)

\* The first buffer of a place that is not empty.
LEMMA OldestBuffer ==
  ASSUME HeldType, NEW q \in Place, held[q] # <<>>
  PROVE  Head(held[q]) \in Buf /\ 1 \in 0 .. Count(q)
BY DEF HeldType, Count

\* The driver moves one buffer at a time, to where there is room for it.
LEMMA KernelMoves ==
  ASSUME HeldOK, NEW l \in Link
  PROVE  /\ KernelTakeFill(l) =>
              HeldOK' /\ Moved(Fq(l), NicRx(l), 1) /\ Flows(Fq(l), NicRx(l))
         /\ \A p \in Arriving[l] : KernelReceive(l, p) =>
              HeldOK' /\ Moved(NicRx(l), Rx(l), 1) /\ Flows(NicRx(l), Rx(l))
         /\ KernelTakeTx(l) =>
              HeldOK' /\ Moved(Tx(l), NicTx(l), 1) /\ Flows(Tx(l), NicTx(l))
         /\ KernelSend(l) =>
              HeldOK' /\ Moved(NicTx(l), Cq(l), 1) /\ Flows(NicTx(l), Cq(l))
<1>1. /\ Fq(l) \in Place /\ NicRx(l) \in Place /\ Rx(l) \in Place
      /\ Tx(l) \in Place /\ NicTx(l) \in Place /\ Cq(l) \in Place
      /\ Fq(l) # NicRx(l) /\ NicRx(l) # Rx(l) /\ Tx(l) # NicTx(l) /\ NicTx(l) # Cq(l)
  BY Places DEF Fq, NicRx, Rx, Tx, NicTx, Cq
<1>2. \A q \in Place : Count(q) \in Nat
  BY Counts
<1>3. ASSUME NEW p \in Place, NEW r \in Place, p # r, held[p] # <<>>,
             MoveFront(p, r, 1), Fits(p, r, 1)
      PROVE  HeldOK' /\ Moved(p, r, 1) /\ Flows(p, r)
  <2>1. 1 \in 0 .. Count(p)
    BY <1>3, OldestBuffer DEF HeldOK
  <2> QED BY <1>3, <2>1, MoveKeeps
<1>4. ASSUME KernelTakeFill(l)
      PROVE  HeldOK' /\ Moved(Fq(l), NicRx(l), 1) /\ Flows(Fq(l), NicRx(l))
  <2>1. Fits(Fq(l), NicRx(l), 1)
    BY DEF Fits, D, Fq, NicRx, Rx, Tx, NicTx, Cq
  <2> QED BY <1>1, <1>3, <1>4, <2>1 DEF KernelTakeFill
<1>5. ASSUME NEW p \in Arriving[l], KernelReceive(l, p)
      PROVE  HeldOK' /\ Moved(NicRx(l), Rx(l), 1) /\ Flows(NicRx(l), Rx(l))
  <2>1. Count(Rx(l)) + 1 <= RingSize
    BY <1>1, <1>2, <1>5, DatapathAssumption DEF KernelReceive
  <2>2. Fits(NicRx(l), Rx(l), 1)
    BY <2>1 DEF Fits, D, Fq, NicRx, Rx, Tx, NicTx, Cq
  <2> QED BY <1>1, <1>3, <1>5, <2>2 DEF KernelReceive
<1>6. ASSUME KernelTakeTx(l)
      PROVE  HeldOK' /\ Moved(Tx(l), NicTx(l), 1) /\ Flows(Tx(l), NicTx(l))
  <2>1. Count(NicTx(l)) + Count(Cq(l)) + 1 <= RingSize
    BY <1>1, <1>2, <1>6, DatapathAssumption DEF KernelTakeTx, CompletionRoom
  <2>2. Fits(Tx(l), NicTx(l), 1)
    BY <2>1 DEF Fits, D, Fq, NicRx, Rx, Tx, NicTx, Cq
  <2> QED BY <1>1, <1>3, <1>6, <2>2 DEF KernelTakeTx
<1>7. ASSUME KernelSend(l)
      PROVE  HeldOK' /\ Moved(NicTx(l), Cq(l), 1) /\ Flows(NicTx(l), Cq(l))
  <2>1. Fits(NicTx(l), Cq(l), 1)
    BY DEF Fits, D, Fq, NicRx, Rx, Tx, NicTx, Cq
  <2> QED BY <1>1, <1>3, <1>7, <2>1 DEF KernelSend
<1> QED BY <1>4, <1>5, <1>6, <1>7

LEMMA KernelInv ==
  ASSUME DpInv, NEW l \in Link, Kernel(l)
  PROVE  DpInv'
<1>1. HeldOK /\ RestOK /\ HeldType
  BY InvParts DEF HeldOK
<1>2. HeldOK'
  <2>1. CASE KernelRxSleep(l) \/ KernelTxSleep(l)
    BY <1>1, <2>1, HeldSame DEF KernelRxSleep, KernelTxSleep
  <2> QED BY <1>1, <2>1, KernelMoves DEF Kernel
<1>3. RestOK'
  <2>1. ASSUME NEW p \in Arriving[l], KernelReceive(l, p) PROVE RestOK'
    <3>1. p \in Packet /\ Head(held[NicRx(l)]) \in Buf
      BY <1>1, <2>1, OldestBuffer, Places, DatapathAssumption DEF KernelReceive
    <3> QED BY <1>1, <2>1, <3>1 DEF RestOK, KernelReceive
  <2>2. CASE KernelSend(l)
    <3>1. Head(held[NicTx(l)]) \in Buf
      BY <1>1, <2>2, OldestBuffer, Places DEF KernelSend
    <3> QED BY <1>1, <2>2, <3>1 DEF RestOK, KernelSend
  <2>3. CASE KernelTakeFill(l) \/ KernelRxSleep(l) \/ KernelTakeTx(l) \/ KernelTxSleep(l)
    BY <1>1, <2>3 DEF RestOK, KernelTakeFill, KernelRxSleep, KernelTakeTx, KernelTxSleep
  <2> QED BY <2>1, <2>2, <2>3 DEF Kernel
<1> QED BY <1>2, <1>3, InvParts

-----------------------------------------------------------------------------
(* The theorems.                                                           *)

\* The area's buffers, each once, are all in the pool.
LEMMA InitInv == Init => DpInv
<1> SUFFICES ASSUME NEW pool \in [1 .. Cardinality(Buf) -> Buf],
                    \A i, j \in DOMAIN pool : pool[i] = pool[j] => i = j,
                    \A b \in Buf : \E i \in DOMAIN pool : pool[i] = b,
                    DpInit(pool)
             PROVE  DpInv
  BY DEF Init
<1>1. Cardinality(Buf) \in Nat
  BY FS_CardinalityType, DatapathAssumption
<1>2. pool \in Seq(Buf) /\ DOMAIN pool = 1 .. Cardinality(Buf)
  BY <1>1
<1>3. /\ held[Pool] = pool
      /\ \A q \in Place \ {Pool} : held[q] = <<>>
      /\ held \in [Place -> Seq(Buf)]
  BY <1>2, Places DEF DpInit
<1>4. ASSUME NEW q \in Place \ {Pool} PROVE Count(q) = 0 /\ DOMAIN held[q] = {}
  BY <1>3 DEF Count
<1>5. Bounds
  <2>1. /\ \A d \in Deque : D(d) \in Place \ {Pool}
        /\ \A l \in Link : /\ Fq(l) \in Place \ {Pool} /\ Rx(l) \in Place \ {Pool}
                           /\ Tx(l) \in Place \ {Pool} /\ NicTx(l) \in Place \ {Pool}
                           /\ Cq(l) \in Place \ {Pool}
    BY Places DEF D, Fq, Rx, Tx, NicTx, Cq, Pool
  <2> QED BY <1>4, <2>1, DatapathAssumption DEF Bounds
<1>6. Exclusive
  <2> SUFFICES ASSUME NEW p \in Place, NEW r \in Place,
                      NEW i \in DOMAIN held[p], NEW j \in DOMAIN held[r],
                      held[p][i] = held[r][j]
               PROVE  p = r /\ i = j
    BY DEF Exclusive
  <2>1. p = Pool /\ r = Pool
    BY <1>4
  <2> QED BY <1>3, <2>1
<1>7. NothingLost
  <2> SUFFICES ASSUME NEW b \in Buf
               PROVE  \E i \in DOMAIN held[Pool] : held[Pool][i] = b
    BY Places, Zenon DEF NothingLost
  <2> QED BY <1>3
<1>8. RestOK
  BY DEF RestOK, DpInit
<1> QED BY <1>3, <1>5, <1>6, <1>7, <1>8, InvParts DEF HeldOK, HeldType, Ownership

LEMMA NextInv == DpInv /\ [Next]_dpVars => DpInv'
<1> SUFFICES ASSUME DpInv, [Next]_dpVars PROVE DpInv'
  OBVIOUS
<1>b. \A b \in Batch : b \in Nat
  BY DatapathAssumption DEF Batch
<1>1. ASSUME Client PROVE DpInv'
  <2>1. ASSUME NEW l \in Link, NEW v \in Vec, NEW b \in Batch,
               Fill(l, v, b) \/ Service(l, v, b)
        PROVE  DpInv'
    BY <1>b, <2>1, UmemInv
  <2>2. ASSUME NEW l \in Link, NEW d \in Deque, NEW b \in Batch,
               TryRecv(l, d, b) \/ TrySend(l, d, b)
        PROVE  DpInv'
    BY <1>b, <2>2, SocketInv
  <2>3. ASSUME NEW l \in Link, WakeupIfRequired(l) PROVE DpInv'
    BY <2>3, WakeupInv
  <2>4. ASSUME NEW l \in Link, NEW ok \in BOOLEAN, Wake(l, ok) PROVE DpInv'
    BY <2>4, WakeInv
  <2>5. ASSUME NEW v \in Vec, NEW b \in Batch, PoolGet(v, b) \/ PoolPut(v, b)
        PROVE  DpInv'
    BY <1>b, <2>5, PoolInv
  <2>6. ASSUME NEW v \in Vec, NEW d \in Deque, Discard(d, v) PROVE DpInv'
    BY <1>b, <2>6, QueueInv, DatapathAssumption DEF Batch
  <2>7. ASSUME NEW v \in Vec, NEW d \in Deque, NEW b \in Batch, NEW p \in Packet,
               Generate(v, d, b, p)
        PROVE  DpInv'
    BY <1>b, <2>7, QueueInv
  <2>8. ASSUME NEW d \in Deque, NEW frame \in [At(D(d)) -> Packet], Rewrite(d, frame)
        PROVE  DpInv'
    BY <2>8, RewriteInv
  <2> QED BY <1>1, <2>1, <2>2, <2>3, <2>4, <2>5, <2>6, <2>7, <2>8, Zenon DEF Client
<1>2. ASSUME NEW l \in Link, Kernel(l) PROVE DpInv'
  BY <1>2, KernelInv
<1>3. ASSUME UNCHANGED dpVars PROVE DpInv'
  <2>1. HeldOK /\ RestOK
    BY InvParts
  <2>2. HeldOK'
    BY <1>3, <2>1, HeldSame DEF dpVars
  <2>3. RestOK'
    BY <1>3, <2>1 DEF RestOK, dpVars
  <2> QED BY <2>2, <2>3, InvParts
<1> QED BY <1>1, <1>2, <1>3 DEF Next

\* Whatever the program calls, with whatever batch sizes, and whatever the
\* kernel does in between, the conjunction of the three properties holds.
THEOREM DatapathInvariant == Spec => []DpInv
BY InitInv, NextInv, PTL DEF Spec

\* Places hold buffers, and never more than the rings and deques have room for.
THEOREM DatapathTypeCorrect == Spec => []DpTypeOK
<1>1. DpInv => DpTypeOK
  BY DEF DpInv
<1> QED BY <1>1, DatapathInvariant, PTL

\* Every buffer of the area is in exactly one place: fill, try_send, try_recv
\* and service neither share a BufMmap nor lose one, whatever part of a batch
\* they move.
THEOREM BuffersOwned == Spec => []Ownership
<1>1. DpInv => Ownership
  BY DEF DpInv
<1> QED BY <1>1, DatapathInvariant, PTL

\* The todo! in fill and the panic! in try_recv are unreachable.
THEOREM PanicsUnreachable == Spec => []NoLibraryPanic
<1>1. DpInv => NoLibraryPanic
  BY DEF DpInv
<1> QED BY <1>1, DatapathInvariant, PTL

-----------------------------------------------------------------------------
(* Frames have packets in them.                                            *)

LEMMA FramePlace ==
  /\ FramePlaces \subseteq Place
  /\ \A d \in Deque : D(d) \in FramePlaces
  /\ \A l \in Link :
       /\ Rx(l) \in FramePlaces /\ Tx(l) \in FramePlaces /\ NicTx(l) \in FramePlaces
       /\ Fq(l) \notin FramePlaces /\ NicRx(l) \notin FramePlaces
       /\ Cq(l) \notin FramePlaces
  /\ \A v \in Vec : V(v) \notin FramePlaces
  /\ Pool \notin FramePlaces
<1>1. FramePlaces \subseteq Place
  BY DEF FramePlaces, Place
<1>2. /\ \A d \in Deque : D(d) \in FramePlaces
      /\ \A l \in Link :
           Rx(l) \in FramePlaces /\ Tx(l) \in FramePlaces /\ NicTx(l) \in FramePlaces
  BY DEF FramePlaces
<1>3. ASSUME NEW q \in FramePlaces
      PROVE  (\E d \in Deque : q = D(d)) \/ \E l \in Link : q \in {Rx(l), Tx(l), NicTx(l)}
  BY DEF FramePlaces
<1>4. ASSUME NEW q \in FramePlaces
      PROVE  /\ \A l \in Link : q # Fq(l) /\ q # NicRx(l) /\ q # Cq(l)
             /\ \A v \in Vec : q # V(v)
             /\ q # Pool
  BY <1>3 DEF D, Rx, Tx, NicTx, Fq, NicRx, Cq, V, Pool
<1> QED BY <1>1, <1>2, <1>4

LEMMA AtBufs ==
  ASSUME HeldType, NEW q \in Place
  PROVE  At(q) \subseteq Buf
<1>1. held[q] \in Seq(Buf)
  BY DEF HeldType
<1> QED BY <1>1 DEF At

\* Buffers flow from p to r, those that had a packet still have one, and so do
\* the ones that came to a frame's place.
LEMMA FullAfter ==
  ASSUME HeldType, FramesFull, NEW p \in Place, NEW r \in Place, Flows(p, r),
         \A q \in FramePlaces : \A b \in At(q) : data'[b] \in Packet,
         r \in FramePlaces => \A b \in At(r)' \ At(r) : data'[b] \in Packet
  PROVE  FramesFull'
<1> SUFFICES ASSUME NEW q \in FramePlaces, NEW b \in At(q)' PROVE data'[b] \in Packet
  BY DEF FramesFull
<1>1. q \in Place
  BY FramePlace
<1>2. CASE q = r
  BY <1>2
<1>3. CASE q = p /\ q # r
  BY <1>3 DEF Flows
<1>4. CASE q # p /\ q # r
  BY <1>1, <1>4 DEF Flows
<1> QED BY <1>2, <1>3, <1>4

\* A step that writes to no buffer and puts only frames where frames are.
LEMMA FullKept ==
  ASSUME HeldType, FramesFull, NEW p \in Place, NEW r \in Place, Flows(p, r),
         UNCHANGED data, p \in FramePlaces \/ r \notin FramePlaces
  PROVE  FramesFull'
<1>1. \A q \in FramePlaces : \A b \in At(q) : data'[b] \in Packet
  BY DEF FramesFull
<1>2. r \in FramePlaces => \A b \in At(r)' \ At(r) : data'[b] \in Packet
  BY <1>1 DEF Flows
<1> QED BY <1>1, <1>2, FullAfter

LEMMA FullSame ==
  ASSUME FramesFull, UNCHANGED <<held, data>>
  PROVE  FramesFull'
BY DEF FramesFull, At

\* service empties buffers of the completion ring only: frames are elsewhere.
LEMMA ServiceFull ==
  ASSUME DpInv, FramesFull, NEW l \in Link, NEW v \in Vec, NEW b \in Nat,
         Service(l, v, b)
  PROVE  FramesFull'
<1>1. HeldOK /\ HeldType /\ Exclusive
  BY InvParts DEF HeldOK, Ownership
<1>2. Cq(l) \in Place /\ V(v) \in Place /\ Cq(l) \notin FramePlaces /\ V(v) \notin FramePlaces
  BY Places, FramePlace
<1>3. Flows(Cq(l), V(v)) /\ Serviced(l, v, b) \in 0 .. Count(Cq(l))
  BY <1>1, ServiceMoves
<1>4. ASSUME NEW q \in FramePlaces, NEW x \in At(q) PROVE data'[x] \in Packet
  <2>1. q \in Place /\ q # Cq(l)
    BY <1>2, FramePlace
  <2>2. x \in Buf /\ data[x] \in Packet
    BY <1>1, <2>1, AtBufs DEF FramesFull
  <2>3. DOMAIN held[Cq(l)] = 1 .. Count(Cq(l)) /\ Count(Cq(l)) \in Nat
    BY <1>1, <1>2, HeldSeq
  <2>4. \A k \in 1 .. Serviced(l, v, b) : k \in DOMAIN held[Cq(l)]
    BY <1>3, <2>3
  <2>5. \A k \in 1 .. Serviced(l, v, b) : x # held[Cq(l)][k]
    BY <1>1, <1>2, <2>1, <2>4 DEF At, Exclusive
  <2>6. data'[x] = data[x]
    BY <2>2, <2>5 DEF Service
  <2> QED BY <2>2, <2>6
<1> QED BY <1>1, <1>2, <1>3, <1>4, FullAfter

\* The driver writes the packet before it shows the frame.
LEMMA ReceiveFull ==
  ASSUME DpInv, FramesFull, NEW l \in Link, NEW p \in Arriving[l], KernelReceive(l, p)
  PROVE  FramesFull'
<1>1. HeldOK /\ HeldType /\ RestOK
  BY InvParts DEF HeldOK
<1>2. NicRx(l) \in Place /\ Rx(l) \in Place /\ NicRx(l) # Rx(l)
  BY Places DEF NicRx, Rx
<1>3. p \in Packet /\ Flows(NicRx(l), Rx(l))
  BY <1>1, KernelMoves, DatapathAssumption
<1>4. held[NicRx(l)] \in Seq(Buf) /\ held[NicRx(l)] # <<>> /\ held[Rx(l)] \in Seq(Buf)
  BY <1>1, <1>2, HeldSeq DEF KernelReceive
<1> DEFINE x == Head(held[NicRx(l)])
           t == SubSeq(held[NicRx(l)], 1, 1)
<1>5. x \in Buf /\ x = held[NicRx(l)][1] /\ Len(held[NicRx(l)]) >= 1
  BY <1>4
<1>6. t \in Seq(Buf) /\ Len(t) = 1 /\ t[1] = x
  BY <1>4, <1>5
<1>7. ASSUME NEW b \in Buf, data[b] \in Packet \/ b = x PROVE data'[b] \in Packet
  BY <1>1, <1>3, <1>7 DEF KernelReceive, RestOK
<1>8. \A q \in FramePlaces : \A b \in At(q) : data'[b] \in Packet
  BY <1>1, <1>7, AtBufs, FramePlace DEF FramesFull
<1>9. \A b \in At(Rx(l))' \ At(Rx(l)) : data'[b] \in Packet
  <2>1. held'[Rx(l)] = held[Rx(l)] \o t
    BY <1>1, <1>2 DEF KernelReceive, MoveFront, HeldType
  <2> HIDE DEF t, x
  <2>2. \A i \in DOMAIN held'[Rx(l)] :
          held'[Rx(l)][i] \in At(Rx(l)) \/ held'[Rx(l)][i] = x
    <3> SUFFICES ASSUME NEW i \in DOMAIN held'[Rx(l)]
                 PROVE  held'[Rx(l)][i] \in At(Rx(l)) \/ held'[Rx(l)][i] = x
      OBVIOUS
    <3>1. DOMAIN held'[Rx(l)] = 1 .. Len(held[Rx(l)]) + 1 /\ Len(held[Rx(l)]) \in Nat
      <4>1. DOMAIN (held[Rx(l)] \o t) = 1 .. Len(held[Rx(l)]) + Len(t)
        BY <1>4, <1>6, Appended
      <4> QED BY <1>4, <1>6, <2>1, <4>1
    <3>2. CASE i \in 1 .. Len(held[Rx(l)])
      <4>1. held'[Rx(l)][i] = held[Rx(l)][i] /\ i \in DOMAIN held[Rx(l)]
        BY <1>4, <1>6, <2>1, <3>2, Appended
      <4> QED BY <4>1 DEF At
    <3>3. CASE i = Len(held[Rx(l)]) + 1
      BY <1>4, <1>6, <2>1, <3>3, Appended
    <3> QED BY <3>1, <3>2, <3>3
  <2>3. \A b \in At(Rx(l))' \ At(Rx(l)) : b = x
    BY <2>2 DEF At
  <2>4. data'[x] \in Packet
    BY <1>5, <1>7
  <2> QED BY <2>3, <2>4
<1> QED BY <1>1, <1>2, <1>3, <1>8, <1>9, FullAfter

\* What is queued was written to before: the buffers popped, not the ones left.
LEMMA GenerateFull ==
  ASSUME DpInv, FramesFull, NEW v \in Vec, NEW d \in Deque, NEW n \in Nat,
         NEW p \in Packet, Generate(v, d, n, p)
  PROVE  FramesFull'
<1>1. HeldOK /\ HeldType /\ RestOK
  BY InvParts DEF HeldOK
<1>2. V(v) \in Place /\ D(d) \in Place /\ V(v) # D(d)
  BY Places DEF V, D
<1>3. n \in 0 .. Count(V(v)) /\ Flows(V(v), D(d))
  BY <1>1, GenerateMoves
<1>4. held[V(v)] \in Seq(Buf) /\ Count(V(v)) \in Nat /\ held[D(d)] \in Seq(Buf)
      /\ DOMAIN held[V(v)] = 1 .. Count(V(v))
  BY <1>1, <1>2, HeldSeq
<1> DEFINE t == [k \in 1 .. n |-> held[V(v)][Count(V(v)) + 1 - k]]
           Popped == {held[V(v)][Count(V(v)) - k] : k \in 0 .. n - 1}
<1>5. ASSUME NEW k \in 1 .. n PROVE t[k] \in Buf /\ t[k] \in Popped
  <2>1. Count(V(v)) + 1 - k = Count(V(v)) - (k - 1) /\ k - 1 \in 0 .. n - 1
    BY <1>3, <1>4
  <2>2. Count(V(v)) + 1 - k \in 1 .. Len(held[V(v)])
    BY <1>3, <1>4 DEF Count
  <2>3. t[k] \in Buf
    BY <1>4, <2>2
  <2>4. t[k] = held[V(v)][Count(V(v)) - (k - 1)]
    BY <2>1
  <2> QED BY <2>1, <2>3, <2>4
<1>6. t \in Seq(Buf) /\ Len(t) = n
  BY <1>5
<1>7. ASSUME NEW b \in Buf, data[b] \in Packet \/ b \in Popped PROVE data'[b] \in Packet
  BY <1>7 DEF Generate
<1>8. \A q \in FramePlaces : \A b \in At(q) : data'[b] \in Packet
  BY <1>1, <1>7, AtBufs, FramePlace DEF FramesFull
<1>9. held'[D(d)] = held[D(d)] \o t
  BY <1>1, <1>2 DEF Generate, MovePopped, HeldType
<1> HIDE DEF t, Popped
<1>10. ASSUME NEW i \in DOMAIN held'[D(d)]
       PROVE  held'[D(d)][i] \in At(D(d)) \/ held'[D(d)][i] \in Popped \cap Buf
  <2>1. DOMAIN held'[D(d)] = 1 .. Len(held[D(d)]) + n /\ Len(held[D(d)]) \in Nat
    <3>1. DOMAIN (held[D(d)] \o t) = 1 .. Len(held[D(d)]) + Len(t)
      BY <1>4, <1>6, Appended
    <3> QED BY <1>4, <1>6, <1>9, <3>1
  <2>2. CASE i \in 1 .. Len(held[D(d)])
    <3>1. held'[D(d)][i] = held[D(d)][i] /\ i \in DOMAIN held[D(d)]
      BY <1>4, <1>6, <1>9, <2>2, Appended
    <3> QED BY <3>1 DEF At
  <2>3. CASE i - Len(held[D(d)]) \in 1 .. n
    <3>1. (held[D(d)] \o t)[Len(held[D(d)]) + (i - Len(held[D(d)]))]
            = t[i - Len(held[D(d)])]
      BY <1>4, <1>6, <2>3, Appended
    <3>2. Len(held[D(d)]) + (i - Len(held[D(d)])) = i
      BY <1>10, <2>1
    <3> QED BY <1>5, <1>9, <2>3, <3>1, <3>2
  <2> QED BY <1>3, <1>10, <2>1, <2>2, <2>3
<1>11. \A b \in At(D(d))' \ At(D(d)) : data'[b] \in Packet
  BY <1>7, <1>10 DEF At
<1> QED BY <1>1, <1>2, <1>3, <1>8, <1>11, FullAfter

\* The other steps write to no buffer: only frames go where frames are.
LEMMA MovesFull ==
  ASSUME DpInv, FramesFull
  PROVE  /\ \A l \in Link, v \in Vec, b \in Nat : Fill(l, v, b) => FramesFull'
         /\ \A l \in Link, d \in Deque, b \in Nat :
              TryRecv(l, d, b) \/ TrySend(l, d, b) => FramesFull'
         /\ \A l \in Link : WakeupIfRequired(l) \/ (\E ok \in BOOLEAN : Wake(l, ok))
              => FramesFull'
         /\ \A v \in Vec, n \in Nat : PoolGet(v, n) \/ PoolPut(v, n) => FramesFull'
         /\ \A v \in Vec, d \in Deque : Discard(d, v) => FramesFull'
<1>1. HeldOK /\ HeldType
  BY InvParts DEF HeldOK
<1>2. ASSUME NEW l \in Link, NEW v \in Vec, NEW b \in Nat, Fill(l, v, b)
      PROVE  FramesFull'
  BY <1>1, <1>2, FillMoves, FullKept, Places, FramePlace DEF Fill
<1>3. ASSUME NEW l \in Link, NEW d \in Deque, NEW b \in Nat,
             TryRecv(l, d, b) \/ TrySend(l, d, b)
      PROVE  FramesFull'
  <2>1. CASE TryRecv(l, d, b)
    BY <1>1, <2>1, RecvMoves, FullKept, Places, FramePlace DEF TryRecv
  <2>2. CASE TrySend(l, d, b)
    BY <1>1, <2>2, SendMoves, FullKept, Places, FramePlace DEF TrySend
  <2> QED BY <1>3, <2>1, <2>2
<1>4. ASSUME NEW l \in Link, WakeupIfRequired(l) \/ (\E ok \in BOOLEAN : Wake(l, ok))
      PROVE  FramesFull'
  BY <1>4, FullSame DEF WakeupIfRequired, Wake
<1>5. ASSUME NEW v \in Vec, NEW n \in Nat, PoolGet(v, n) \/ PoolPut(v, n)
      PROVE  FramesFull'
  <2>1. CASE PoolGet(v, n)
    BY <1>1, <2>1, PoolMoves, FullKept, Places, FramePlace DEF PoolGet
  <2>2. CASE PoolPut(v, n)
    BY <1>1, <2>2, PoolMoves, FullKept, Places, FramePlace DEF PoolPut
  <2> QED BY <1>5, <2>1, <2>2
<1>6. ASSUME NEW v \in Vec, NEW d \in Deque, Discard(d, v)
      PROVE  FramesFull'
  BY <1>1, <1>6, DiscardMoves, FullKept, Places, FramePlace DEF Discard
<1> QED BY <1>2, <1>3, <1>4, <1>5, <1>6

\* What a program writes into a frame is a packet.
LEMMA RewriteFull ==
  ASSUME DpInv, FramesFull, NEW d \in Deque, NEW frame \in [At(D(d)) -> Packet],
         Rewrite(d, frame)
  PROVE  FramesFull'
<1>1. HeldOK
  BY InvParts
<1>2. ASSUME NEW b \in Buf, data[b] \in Packet PROVE data'[b] \in Packet
  BY <1>2 DEF Rewrite
<1> SUFFICES ASSUME NEW q \in FramePlaces, NEW b \in At(q)' PROVE data'[b] \in Packet
  BY DEF FramesFull
<1>3. b \in At(q) /\ b \in Buf
  BY <1>1, AtBufs, FramePlace DEF Rewrite, At, HeldOK
<1> QED BY <1>2, <1>3 DEF FramesFull

LEMMA KernelFull ==
  ASSUME DpInv, FramesFull, NEW l \in Link, Kernel(l)
  PROVE  FramesFull'
<1>1. HeldOK /\ HeldType
  BY InvParts DEF HeldOK
<1>2. CASE KernelTakeFill(l)
  BY <1>1, <1>2, KernelMoves, FullKept, Places, FramePlace DEF KernelTakeFill
<1>3. ASSUME NEW p \in Arriving[l], KernelReceive(l, p) PROVE FramesFull'
  BY <1>3, ReceiveFull
<1>4. CASE KernelTakeTx(l)
  BY <1>1, <1>4, KernelMoves, FullKept, Places, FramePlace DEF KernelTakeTx
<1>5. CASE KernelSend(l)
  BY <1>1, <1>5, KernelMoves, FullKept, Places, FramePlace DEF KernelSend
<1>6. CASE KernelRxSleep(l) \/ KernelTxSleep(l)
  BY <1>6, FullSame DEF KernelRxSleep, KernelTxSleep
<1> QED BY <1>2, <1>3, <1>4, <1>5, <1>6 DEF Kernel

LEMMA NoFrames == Init => FramesFull
<1> SUFFICES ASSUME Init, NEW q \in FramePlaces, NEW b \in At(q) PROVE FALSE
  BY DEF FramesFull
<1>1. q \in Place /\ q # Pool
  BY FramePlace
<1>2. held[q] = <<>>
  BY <1>1 DEF Init, DpInit
<1> QED BY <1>2 DEF At

\* A frame in an RX ring, a deque or a TX ring, or at the NIC to be sent, holds
\* a packet: service empties no buffer that is still on its way, and nothing
\* empty is submitted.
THEOREM FramesHavePackets == Spec => []FramesFull
<1>1. Init => FramesFull
  BY NoFrames
<1>2. DpInv /\ FramesFull /\ [Next]_dpVars => FramesFull'
  <2> SUFFICES ASSUME DpInv, FramesFull, [Next]_dpVars PROVE FramesFull'
    OBVIOUS
  <2>1. \A b \in Batch : b \in Nat
    BY DatapathAssumption DEF Batch
  <2>2. ASSUME Client PROVE FramesFull'
    <3>1. ASSUME NEW l \in Link, NEW v \in Vec, NEW b \in Batch,
                 Fill(l, v, b) \/ Service(l, v, b)
          PROVE  FramesFull'
      BY <2>1, <3>1, MovesFull, ServiceFull
    <3>2. ASSUME NEW l \in Link, NEW d \in Deque, NEW b \in Batch,
                 TryRecv(l, d, b) \/ TrySend(l, d, b)
          PROVE  FramesFull'
      BY <2>1, <3>2, MovesFull
    <3>3. ASSUME NEW l \in Link,
                 WakeupIfRequired(l) \/ \E ok \in BOOLEAN : Wake(l, ok)
          PROVE  FramesFull'
      BY <3>3, MovesFull
    <3>4. ASSUME NEW v \in Vec, NEW b \in Batch, PoolGet(v, b) \/ PoolPut(v, b)
          PROVE  FramesFull'
      BY <2>1, <3>4, MovesFull
    <3>5. ASSUME NEW v \in Vec, NEW d \in Deque, Discard(d, v) PROVE FramesFull'
      BY <3>5, MovesFull
    <3>6. ASSUME NEW v \in Vec, NEW d \in Deque, NEW b \in Batch, NEW p \in Packet,
                 Generate(v, d, b, p)
          PROVE  FramesFull'
      BY <2>1, <3>6, GenerateFull
    <3>7. ASSUME NEW d \in Deque, NEW frame \in [At(D(d)) -> Packet], Rewrite(d, frame)
          PROVE  FramesFull'
      BY <3>7, RewriteFull
    <3> QED BY <2>2, <3>1, <3>2, <3>3, <3>4, <3>5, <3>6, <3>7, Zenon DEF Client
  <2>3. ASSUME NEW l \in Link, Kernel(l) PROVE FramesFull'
    BY <2>3, KernelFull
  <2>4. ASSUME UNCHANGED dpVars PROVE FramesFull'
    BY <2>4, FullSame DEF dpVars
  <2> QED BY <2>2, <2>3, <2>4 DEF Next
<1> QED BY <1>1, <1>2, DatapathInvariant, PTL DEF Spec

-----------------------------------------------------------------------------
(* Which frames are left to a sleeping driver.                             *)

\* What TxKicked says of one step.
KickedStep ==
  \A l \in Link : ~Stranded(l) /\ Stranded(l)' => KickRefused(l) \/ StopsFull(l)

NotTx(p) == \A l \in Link : p # Tx(l)

LEMMA TxRings ==
  /\ Pool \in Place /\ NotTx(Pool)
  /\ \A v \in Vec : V(v) \in Place /\ NotTx(V(v))
  /\ \A d \in Deque : D(d) \in Place /\ NotTx(D(d))
  /\ \A l \in Link :
       /\ Tx(l) \in Place
       /\ NotTx(Fq(l)) /\ NotTx(NicRx(l)) /\ NotTx(Rx(l)) /\ NotTx(NicTx(l)) /\ NotTx(Cq(l))
  /\ \A k, l \in Link : Tx(k) = Tx(l) => k = l
BY Places DEF NotTx, Pool, V, D, Fq, NicRx, Rx, Tx, NicTx, Cq

\* A step that adds no frame to a TX ring and puts no driver to sleep.
LEMMA NoneStranded ==
  ASSUME NEW p, NEW r, NEW n, Moved(p, r, n), NotTx(p), NotTx(r),
         UNCHANGED <<txAsleep, kicking>>
  PROVE  KickedStep
<1>1. \A l \in Link : held'[Tx(l)] = held[Tx(l)]
  BY TxRings DEF Moved, NotTx
<1> QED BY <1>1 DEF KickedStep, Stranded

\* The calls: try_send announces the test of the flag, which wakes the driver
\* unless sendto is refused.
LEMMA CallsKick ==
  ASSUME DpInv, Client
  PROVE  KickedStep
<1>1. HeldOK /\ RestOK /\ \A b \in Batch : b \in Nat
  BY InvParts, DatapathAssumption DEF Batch
<1>2. ASSUME NEW l \in Link, NEW v \in Vec, NEW b \in Batch, Fill(l, v, b)
      PROVE  KickedStep
  BY <1>1, <1>2, FillMoves, NoneStranded, TxRings DEF Fill
<1>3. ASSUME NEW l \in Link, NEW v \in Vec, NEW b \in Batch, Service(l, v, b)
      PROVE  KickedStep
  BY <1>1, <1>3, ServiceMoves, NoneStranded, TxRings DEF Service
<1>4. ASSUME NEW l \in Link, NEW d \in Deque, NEW b \in Batch, TryRecv(l, d, b)
      PROVE  KickedStep
  BY <1>1, <1>4, RecvMoves, NoneStranded, TxRings DEF TryRecv
<1>5. ASSUME NEW l \in Link, NEW d \in Deque, NEW b \in Batch, TrySend(l, d, b)
      PROVE  KickedStep
  <2>1. Moved(D(d), Tx(l), Sent(l, d, b))
    BY <1>1, <1>5, SendMoves
  <2>2. \A k \in Link \ {l} : held'[Tx(k)] = held[Tx(k)]
    BY <2>1, TxRings DEF Moved, NotTx
  <2>3. kicking' = kicking \cup {l} /\ UNCHANGED txAsleep
    BY <1>5 DEF TrySend
  <2> QED BY <2>2, <2>3 DEF KickedStep, Stranded
<1>6. ASSUME NEW l \in Link, WakeupIfRequired(l) PROVE KickedStep
  <2>1. \A k \in Link \ {l} : txAsleep'[k] = txAsleep[k]
    BY <1>1, <1>6 DEF WakeupIfRequired, RestOK
  <2>2. l \in kicking /\ kicking' = kicking \ {l} /\ UNCHANGED held
    BY <1>6 DEF WakeupIfRequired
  <2>3. ASSUME txAsleep'[l] PROVE KickRefused(l)
    <3>1. NeedsWakeup(l)
      BY <1>6, <2>3 DEF WakeupIfRequired, NeedsWakeup
    <3>2. PICK r \in SendtoOutcome : txAsleep' = [txAsleep EXCEPT ![l] = @ /\ r # "ok"]
      BY <1>6, <3>1 DEF WakeupIfRequired
    <3>3. r # "ok"
      BY <1>1, <2>3, <3>2 DEF RestOK
    <3> QED BY <2>2, <3>1, <3>3 DEF KickRefused
  <2> QED BY <2>1, <2>2, <2>3 DEF KickedStep, Stranded
<1>7. ASSUME NEW l \in Link, NEW ok \in BOOLEAN, Wake(l, ok) PROVE KickedStep
  <2>1. \A k \in Link : txAsleep'[k] => txAsleep[k]
    BY <1>1, <1>7 DEF Wake, RestOK
  <2>2. UNCHANGED <<held, kicking>>
    BY <1>7 DEF Wake
  <2> QED BY <2>1, <2>2 DEF KickedStep, Stranded
<1>8. ASSUME NEW v \in Vec, NEW n \in Batch, PoolGet(v, n) PROVE KickedStep
  BY <1>1, <1>8, PoolMoves, NoneStranded, TxRings DEF PoolGet
<1>9. ASSUME NEW v \in Vec, NEW n \in Batch, PoolPut(v, n) PROVE KickedStep
  BY <1>1, <1>9, PoolMoves, NoneStranded, TxRings DEF PoolPut
<1>10. ASSUME NEW v \in Vec, NEW d \in Deque, Discard(d, v) PROVE KickedStep
  BY <1>1, <1>10, DiscardMoves, NoneStranded, TxRings DEF Discard
<1>11. ASSUME NEW v \in Vec, NEW d \in Deque, NEW n \in Batch, NEW p \in Packet,
              Generate(v, d, n, p)
       PROVE  KickedStep
  BY <1>1, <1>11, GenerateMoves, NoneStranded, TxRings DEF Generate
<1>12. ASSUME NEW d \in Deque, NEW frame, Rewrite(d, frame) PROVE KickedStep
  BY <1>12 DEF Rewrite, KickedStep, Stranded
<1> QED
  BY <1>2, <1>3, <1>4, <1>5, <1>6, <1>7, <1>8, <1>9, <1>10, <1>11, <1>12 DEF Client

\* The driver takes frames when it is awake, and sleeps when there are none or
\* none could be completed.
LEMMA KernelKicks ==
  ASSUME DpInv, NEW l \in Link, Kernel(l)
  PROVE  KickedStep
<1>1. HeldOK /\ HeldType /\ RestOK
  BY InvParts DEF HeldOK
<1>2. CASE KernelTakeFill(l)
  BY <1>1, <1>2, KernelMoves, NoneStranded, TxRings DEF KernelTakeFill
<1>3. ASSUME NEW p \in Arriving[l], KernelReceive(l, p) PROVE KickedStep
  BY <1>1, <1>3, KernelMoves, NoneStranded, TxRings DEF KernelReceive
<1>4. CASE KernelTakeTx(l)
  <2>1. \A k \in Link \ {l} : held'[Tx(k)] = held[Tx(k)]
    BY <1>1, <1>4, KernelMoves, TxRings DEF Moved, NotTx
  <2>2. ~txAsleep[l] /\ UNCHANGED <<txAsleep, kicking>>
    BY <1>4 DEF KernelTakeTx
  <2> QED BY <2>1, <2>2 DEF KickedStep, Stranded
<1>5. CASE KernelSend(l)
  BY <1>1, <1>5, KernelMoves, NoneStranded, TxRings DEF KernelSend
<1>6. CASE KernelRxSleep(l)
  BY <1>6 DEF KernelRxSleep, KickedStep, Stranded
<1>7. CASE KernelTxSleep(l)
  <2>1. /\ \A k \in Link \ {l} : txAsleep'[k] = txAsleep[k]
        /\ ~txAsleep[l] /\ UNCHANGED <<held, kicking>>
    BY <1>1, <1>7 DEF KernelTxSleep, RestOK
  <2>2. held[Tx(l)] # <<>> => ~CompletionRoom(l)
    BY <1>7 DEF KernelTxSleep
  <2> QED BY <2>1, <2>2 DEF KickedStep, Stranded, StopsFull
<1> QED BY <1>2, <1>3, <1>4, <1>5, <1>6, <1>7 DEF Kernel

\* Frames stay behind in the TX ring of a sleeping driver only when the sendto
\* for them was refused with an errno that wakeup_if_required passes over, or
\* when the driver stopped for want of completion entries: the submit and the
\* test of the flag that follows it miss nothing, with any number of buffers,
\* any rings, and any calls on any links.
THEOREM FramesKicked == Spec => TxKicked
<1>1. DpInv /\ [Next]_dpVars => [KickedStep]_dpVars
  BY CallsKick, KernelKicks DEF Next
<1>2. KickedStep =>
        \A l \in Link : ~Stranded(l) /\ Stranded(l)' => KickRefused(l) \/ StopsFull(l)
  BY DEF KickedStep
<1> QED BY <1>1, <1>2, DatapathInvariant, PTL DEF Spec, TxKicked
=============================================================================
