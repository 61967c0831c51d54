------------------------- MODULE TrafficTestProofs -------------------------
(***************************************************************************)
(* The traffic test, proved for any ring and burst size, any threshold and *)
(* any number of packets and faults: its deficits are true, it never runs  *)
(* out of buffers, it complains of nothing without reason, and what it     *)
(* passes came in order, undamaged but for packets it had no hash for.     *)
(***************************************************************************)
EXTENDS TrafficTest, FiniteSetTheorems, SequenceTheorems, TLAPS

-----------------------------------------------------------------------------
(* The inductive invariants.                                               *)

\* Before its initial fill a thread has all its buffers, pending_receive is
\* emptied in the iteration that filled it, and nothing is sent beyond the total.
Ledger ==
  \A p \in Port :
    /\ At(p, "fill") => bufs[p] = BufNum /\ fqDeficit[p] = 0
    /\ pendRecv[p] # <<>> => At(p, "receive")
    /\ portState[p].transmitted <= Total

\* The inductive invariant of the deficits.
BufferInv == TrafficTypeOK /\ DeficitsTrue /\ Ledger

\* The packets on the way to port p, next one first.
WayTo(p) == pendRecv[p] \o rx[p] \o tx[Other(p)] \o pendSend[Other(p)]

\* As long as the veth only drops, what is on the way is undamaged and in
\* order, and ahead of what arrived.
InOrder ==
  faults = 0 =>
    \A p \in Port :
      /\ portState[p].last_received_seq <= portState[Other(p)].seq
      /\ Rising(WayTo(p))
      /\ \A i \in DOMAIN WayTo(p) :
           WayTo(p)[i].intact /\ portState[p].last_received_seq < WayTo(p)[i].seq

\* The inductive invariant of the verdict.
TestInv == BufferInv /\ Accounts /\ NoFalseAlarm /\ InOrder

-----------------------------------------------------------------------------
(* The constants and the helpers of the model.                             *)

LEMMA Constants ==
  /\ Total \in Nat /\ Total >= 1 /\ BurstSize \in Nat /\ BurstSize >= 1
  /\ BurstGap \in Nat /\ EndTime \in Nat /\ Padding \in Nat
  /\ RingSize \in Nat /\ RingSize >= 1 /\ PendingLen \in Nat /\ PendingLen >= BurstSize
  /\ FillThreshold \in Nat /\ FillThreshold >= 1 /\ FillBatch \in Nat
  /\ ServiceThreshold \in Nat /\ ServiceThreshold >= 1 /\ ServiceBatch \in Nat
  /\ SocketBatch \in Nat /\ SocketBatch >= 1 /\ MaxTime \in Nat /\ MaxFaults \in Nat
  /\ BufNum \in Nat /\ BufNum >= RingSize + (ServiceThreshold - 1) + BurstSize
BY BiDirHashAssumption, TrafficAssumption

LEMMA Ports ==
  /\ 0 \in Port /\ 1 \in Port /\ Other(0) = 1 /\ Other(1) = 0
  /\ \A p \in Port : Other(p) \in Port /\ Other(p) # p /\ Other(Other(p)) = p
  /\ \A p, q \in Port : q # p => q = Other(p)
BY DEF Port, Other

LEMMA SmallerFacts ==
  ASSUME NEW m \in Nat, NEW n \in Nat
  PROVE  /\ Smaller(m, n) \in Nat /\ Smaller(m, n) <= m /\ Smaller(m, n) <= n
         /\ Smaller(m, n) \in {m, n}
BY DEF Smaller

\* The two parts a queue is cut into.
LEMMA Cut ==
  ASSUME NEW s \in Seq(Packet), NEW n \in 0 .. Len(s)
  PROVE  /\ First(s, n) \in Seq(Packet) /\ Len(First(s, n)) = n
         /\ Rest(s, n) \in Seq(Packet) /\ Len(Rest(s, n)) = Len(s) - n
         /\ \A i \in 1 .. n : First(s, n)[i] = s[i]
         /\ \A i \in 1 .. Len(s) - n : Rest(s, n)[i] = s[n + i]
<1> HIDE DEF Packet
<1>1. 1 <= Len(s) + 1 /\ n <= Len(s) /\ Len(s) \in Nat /\ n \in Nat
  OBVIOUS
<1>2. /\ First(s, n) \in Seq(Packet) /\ Len(First(s, n)) = n
      /\ \A i \in 1 .. n : First(s, n)[i] = s[i]
  BY <1>1 DEF First
<1>3. /\ Rest(s, n) \in Seq(Packet) /\ Len(Rest(s, n)) = Len(s) - n
      /\ \A i \in 1 .. Len(s) - n : Rest(s, n)[i] = s[n + i]
  BY <1>1 DEF Rest
<1> QED BY <1>2, <1>3

LEMMA Joining ==
  ASSUME NEW s \in Seq(Packet), NEW t \in Seq(Packet)
  PROVE  /\ s \o t \in Seq(Packet) /\ Len(s \o t) = Len(s) + Len(t)
         /\ \A i \in 1 .. Len(s) : (s \o t)[i] = s[i]
         /\ \A i \in 1 .. Len(t) : (s \o t)[Len(s) + i] = t[i]
<1> HIDE DEF Packet
<1> QED OBVIOUS

\* A queue without its i-th packet.
LEMMA Taking ==
  ASSUME NEW s \in Seq(Packet), NEW i \in DOMAIN s
  PROVE  /\ RemoveAt(s, i) \in Seq(Packet) /\ Len(RemoveAt(s, i)) = Len(s) - 1
         /\ RemoveAt(s, i) = First(s, i - 1) \o Rest(s, i)
<1> HIDE DEF Packet
<1>1. i \in Nat /\ i >= 1 /\ i <= Len(s) /\ Len(s) \in Nat
  OBVIOUS
<1>2. RemoveAt(s, i) = First(s, i - 1) \o Rest(s, i)
  BY DEF RemoveAt, First, Rest
<1>3. i - 1 \in 0 .. Len(s) /\ i \in 0 .. Len(s)
  BY <1>1
<1>4. /\ First(s, i - 1) \in Seq(Packet) /\ Len(First(s, i - 1)) = i - 1
      /\ Rest(s, i) \in Seq(Packet) /\ Len(Rest(s, i)) = Len(s) - i
  BY <1>3, Cut
<1> QED BY <1>1, <1>2, <1>4, Joining

-----------------------------------------------------------------------------
(* The loop of receive.                                                    *)

\* The least-number principle: with it a property of the PortState after each
\* iteration is proved from one iteration to the next.
LEMMA Least ==
  ASSUME NEW T \in SUBSET Nat, T # {}
  PROVE  \E x \in T : \A y \in T : x <= y
<1>1. PICK x \in T : \A y \in T : ~(<<y, x>> \in OpToRel(<, Nat))
  <2> HIDE DEF OpToRel
  <2>1. IsWellFoundedOn(OpToRel(<, Nat), Nat)
    BY NatLessThanWellFounded
  <2> QED BY <2>1, WFMin, Zenon
<1>2. \A y \in T : <<y, x>> \in OpToRel(<, Nat) <=> y < x
  BY DEF OpToRel
<1>3. ASSUME NEW y \in T PROVE x <= y
  <2>1. ~(y < x)
    BY <1>1, <1>2
  <2> QED BY <2>1
<1> QED BY <1>3

LEMMA Counting ==
  ASSUME NEW n \in Nat, NEW T \in SUBSET (0 .. n), 0 \notin T,
         \A k \in 1 .. n : k - 1 \notin T => k \notin T
  PROVE  T = {}
<1> SUFFICES ASSUME T # {} PROVE FALSE
  OBVIOUS
<1>1. PICK x \in T : \A y \in T : x <= y
  <2>1. T \in SUBSET Nat
    OBVIOUS
  <2> QED BY <2>1, Least
<1>2. x \in 1 .. n /\ x - 1 \notin T
  BY <1>1
<1> QED BY <1>1, <1>2

LEMMA OneIs == One(TRUE) = 1 /\ One(FALSE) = 0 /\ \A x \in BOOLEAN : One(x) \in Nat
BY DEF One

LEMMA StateFields ==
  ASSUME NEW s \in PortState
  PROVE  /\ s.transmitted \in Nat /\ s.received \in Nat /\ s.out_of_order \in Nat
         /\ s.bad_hash \in Nat /\ s.duplicated \in Nat /\ s.seq \in Nat
         /\ s.last_received_seq \in Nat /\ s.last_time \in Nat
BY DEF PortState

\* One iteration, field by field.
LEMMA CheckIs ==
  ASSUME NEW p \in Port, NEW s \in PortState, NEW pkt \in Packet
  PROVE  /\ Check(p, s, pkt) \in PortState
         /\ Check(p, s, pkt).transmitted = s.transmitted
         /\ Check(p, s, pkt).received = s.received + 1
         /\ Check(p, s, pkt).out_of_order = s.out_of_order + One(Late(s, pkt.seq))
         /\ Check(p, s, pkt).bad_hash =
              s.bad_hash + One(Known(Other(p), pkt.seq) /\ ~pkt.intact)
         /\ Check(p, s, pkt).duplicated = s.duplicated
         /\ Check(p, s, pkt).seq = s.seq
         /\ Check(p, s, pkt).last_time = s.last_time
         /\ Check(p, s, pkt).last_received_seq =
              IF Late(s, pkt.seq) THEN s.last_received_seq ELSE pkt.seq
<1> DEFINE o == s.out_of_order + One(Late(s, pkt.seq))
           l == IF Late(s, pkt.seq) THEN s.last_received_seq ELSE pkt.seq
           h == s.bad_hash + One(Known(Other(p), pkt.seq) /\ ~pkt.intact)
           d == s.duplicated + One(Known(Other(p), pkt.seq) /\ Processed(Other(p), pkt.seq))
           r == s.received + 1
<1>1. pkt.seq \in Nat
  BY DEF Packet
<1>2. /\ One(Late(s, pkt.seq)) \in Nat
      /\ One(Known(Other(p), pkt.seq) /\ ~pkt.intact) \in Nat
      /\ One(Known(Other(p), pkt.seq) /\ Processed(Other(p), pkt.seq)) = 0
  BY DEF One, Processed
<1>3. o \in Nat /\ l \in Nat /\ h \in Nat /\ d = s.duplicated /\ d \in Nat /\ r \in Nat
  BY <1>1, <1>2, StateFields
<1>4. Check(p, s, pkt) = [s EXCEPT !.out_of_order = o, !.last_received_seq = l,
                                   !.bad_hash = h, !.duplicated = d, !.received = r]
  BY DEF Check
<1> DEFINE c == [s EXCEPT !.out_of_order = o, !.last_received_seq = l,
                          !.bad_hash = h, !.duplicated = d, !.received = r]
<1>5. /\ c \in PortState /\ c.transmitted = s.transmitted /\ c.received = r
      /\ c.out_of_order = o /\ c.bad_hash = h /\ c.duplicated = d /\ c.seq = s.seq
      /\ c.last_time = s.last_time /\ c.last_received_seq = l
  <2> HIDE DEF o, l, h, d, r
  <2> QED BY <1>3 DEF PortState
<1> QED BY <1>3, <1>4, <1>5

LEMMA CheckType ==
  ASSUME NEW p \in Port, NEW s \in PortState, NEW pkt \in Packet
  PROVE  Check(p, s, pkt) \in PortState
BY CheckIs, Zenon

LEMMA LoopExists ==
  ASSUME NEW p \in Port, NEW s \in PortState, NEW pkts \in Seq(Packet)
  PROVE  \E run : run = [k \in 0 .. Len(pkts) |->
                           IF k = 0 THEN s ELSE Check(p, run[k - 1], pkts[k])]
<1> HIDE DEF PortState, Packet
<1> DEFINE R(m, run) == /\ run[0] = s
                        /\ \A k \in 1 .. m : run[k] = Check(p, run[k - 1], pkts[k])
           T == {m \in 0 .. Len(pkts) : ~\E run \in [0 .. m -> PortState] : R(m, run)}
<1>1. Len(pkts) \in Nat /\ \A k \in 1 .. Len(pkts) : pkts[k] \in Packet
  OBVIOUS
<1>2. 0 \notin T
  <2>1. [k \in 0 .. 0 |-> s] \in [0 .. 0 -> PortState] /\ R(0, [k \in 0 .. 0 |-> s])
    OBVIOUS
  <2> QED BY <2>1
<1>3. ASSUME NEW m \in 1 .. Len(pkts), m - 1 \notin T PROVE m \notin T
  <2>1. m - 1 \in 0 .. Len(pkts) /\ m \in Nat /\ m >= 1
    BY <1>1
  <2>2. PICK g \in [0 .. m - 1 -> PortState] : R(m - 1, g)
    BY <1>3, <2>1
  <2> DEFINE h == [k \in 0 .. m |-> IF k < m THEN g[k] ELSE Check(p, g[m - 1], pkts[m])]
  <2>3. h \in [0 .. m -> PortState]
    BY <1>1, <2>1, <2>2, CheckType
  <2>4. R(m, h)
    <3>1. h[0] = s
      BY <2>1, <2>2
    <3>2. ASSUME NEW k \in 1 .. m PROVE h[k] = Check(p, h[k - 1], pkts[k])
      <4>1. h[k - 1] = g[k - 1]
        BY <2>1
      <4>2. CASE k = m
        BY <2>1, <4>1, <4>2
      <4>3. CASE k # m
        BY <2>1, <2>2, <4>1, <4>3
      <4> QED BY <4>2, <4>3
    <3> QED BY <3>1, <3>2
  <2> QED BY <2>3, <2>4
<1>4. T = {}
  <2> HIDE DEF T
  <2>1. T \in SUBSET (0 .. Len(pkts))
    BY DEF T
  <2> QED BY <1>1, <1>2, <1>3, <2>1, Counting
<1>5. PICK run \in [0 .. Len(pkts) -> PortState] : R(Len(pkts), run)
  BY <1>1, <1>4
<1>6. run = [k \in 0 .. Len(pkts) |-> IF k = 0 THEN s ELSE Check(p, run[k - 1], pkts[k])]
  BY <1>1, <1>5
<1> QED BY <1>6

\* What the loop does, iteration by iteration.
LEMMA LoopSteps ==
  ASSUME NEW p \in Port, NEW s \in PortState, NEW pkts \in Seq(Packet)
  PROVE  /\ Checked(p, s, pkts)[0] = s
         /\ \A k \in 1 .. Len(pkts) :
              Checked(p, s, pkts)[k] = Check(p, Checked(p, s, pkts)[k - 1], pkts[k])
         /\ \A k \in 0 .. Len(pkts) : Checked(p, s, pkts)[k] \in PortState
<1> HIDE DEF PortState, Packet
<1> DEFINE E(g) == [k \in 0 .. Len(pkts) |-> IF k = 0 THEN s ELSE Check(p, g[k - 1], pkts[k])]
           run == Checked(p, s, pkts)
<1>1. run = CHOOSE g : g = E(g)
  BY DEF Checked
<1>2. \E g : g = E(g)
  BY LoopExists
<1>3. run = E(run)
  <2> HIDE DEF E, run
  <2>1. E(CHOOSE g : g = E(g)) = CHOOSE g : g = E(g)
    BY <1>2
  <2> QED BY <1>1, <2>1
<1> HIDE DEF run
<1>4. Len(pkts) \in Nat /\ \A k \in 1 .. Len(pkts) : pkts[k] \in Packet
  OBVIOUS
<1>5. run[0] = s /\ \A k \in 1 .. Len(pkts) : run[k] = Check(p, run[k - 1], pkts[k])
  BY <1>3, <1>4
<1> DEFINE T == {k \in 0 .. Len(pkts) : run[k] \notin PortState}
<1>6. T = {}
  <2>1. T \in SUBSET (0 .. Len(pkts)) /\ 0 \notin T
    BY <1>5
  <2>2. \A k \in 1 .. Len(pkts) : k - 1 \notin T => k \notin T
    BY <1>4, <1>5, CheckType
  <2> HIDE DEF T
  <2> QED BY <1>4, <2>1, <2>2, Counting
<1> QED BY <1>5, <1>6 DEF run
\* What the loop leaves alone and what it counts.
LEMMA LoopKeeps ==
  ASSUME NEW p \in Port, NEW s \in PortState, NEW pkts \in Seq(Packet),
         NEW k \in 0 .. Len(pkts)
  PROVE  /\ Checked(p, s, pkts)[k].transmitted = s.transmitted
         /\ Checked(p, s, pkts)[k].received = s.received + k
         /\ Checked(p, s, pkts)[k].duplicated = s.duplicated
         /\ Checked(p, s, pkts)[k].seq = s.seq
         /\ Checked(p, s, pkts)[k].last_time = s.last_time
<1> HIDE DEF PortState, Packet
<1> DEFINE run == Checked(p, s, pkts)
           Kept(m) == /\ run[m].transmitted = s.transmitted /\ run[m].received = s.received + m
                      /\ run[m].duplicated = s.duplicated /\ run[m].seq = s.seq
                      /\ run[m].last_time = s.last_time
           T == {m \in 0 .. Len(pkts) : ~Kept(m)}
<1>1. /\ run[0] = s /\ \A m \in 1 .. Len(pkts) : run[m] = Check(p, run[m - 1], pkts[m])
      /\ \A m \in 0 .. Len(pkts) : run[m] \in PortState
  BY LoopSteps, Zenon
<1> HIDE DEF run
<1>2. Len(pkts) \in Nat /\ \A m \in 1 .. Len(pkts) : pkts[m] \in Packet
  OBVIOUS
<1>3. 0 \notin T
  <2>1. s.received \in Nat
    BY StateFields
  <2> QED BY <1>1, <2>1
<1>4. ASSUME NEW m \in 1 .. Len(pkts), m - 1 \notin T PROVE m \notin T
  <2>1. m - 1 \in 0 .. Len(pkts) /\ m \in 0 .. Len(pkts)
    BY <1>2
  <2>2. Kept(m - 1) /\ run[m - 1] \in PortState /\ pkts[m] \in Packet
    BY <1>1, <1>2, <1>4, <2>1
  <2> DEFINE r == run[m - 1]
             pkt == pkts[m]
  <2>3. r \in PortState /\ pkt \in Packet /\ run[m] = Check(p, r, pkt) /\ Kept(m - 1)
    BY <1>1, <2>2
  <2> HIDE DEF pkt
  <2>4. /\ Check(p, r, pkt).transmitted = r.transmitted
        /\ Check(p, r, pkt).received = r.received + 1
        /\ Check(p, r, pkt).duplicated = r.duplicated /\ Check(p, r, pkt).seq = r.seq
        /\ Check(p, r, pkt).last_time = r.last_time
    BY <2>3, CheckIs, Zenon
  <2>5. s.received + (m - 1) + 1 = s.received + m
    BY <2>1, StateFields
  <2>6. Kept(m)
    BY <2>3, <2>4, <2>5
  <2> QED BY <2>6
<1>5. T = {}
  <2>1. T \in SUBSET (0 .. Len(pkts))
    OBVIOUS
  <2> HIDE DEF T
  <2> QED BY <1>2, <1>3, <1>4, <2>1, Counting
<1> QED BY <1>5 DEF run

\* The order the loop complains about: the numbers it has seen rise as long as
\* out_of_order is zero, and last_received_seq is the highest of them.
LEMMA LoopOrder ==
  ASSUME NEW p \in Port, NEW s \in PortState, NEW pkts \in Seq(Packet),
         NEW k \in 0 .. Len(pkts)
  PROVE  /\ \/ Checked(p, s, pkts)[k].last_received_seq = s.last_received_seq
            \/ \E j \in 1 .. k : Checked(p, s, pkts)[k].last_received_seq = pkts[j].seq
         /\ Checked(p, s, pkts)[k].out_of_order = 0 =>
              /\ s.out_of_order = 0
              /\ \A i, j \in 1 .. k : i < j => pkts[i].seq < pkts[j].seq
              /\ \A i \in 1 .. k : /\ s.last_received_seq < pkts[i].seq
                                   /\ pkts[i].seq <= Checked(p, s, pkts)[k].last_received_seq
              /\ s.last_received_seq <= Checked(p, s, pkts)[k].last_received_seq
<1> HIDE DEF PortState, Packet
<1> DEFINE run == Checked(p, s, pkts)
           Highest(m) == \/ run[m].last_received_seq = s.last_received_seq
                         \/ \E j \in 1 .. m : run[m].last_received_seq = pkts[j].seq
           Sorted(m) ==
             /\ s.out_of_order = 0
             /\ \A i, j \in 1 .. m : i < j => pkts[i].seq < pkts[j].seq
             /\ \A i \in 1 .. m : /\ s.last_received_seq < pkts[i].seq
                                  /\ pkts[i].seq <= run[m].last_received_seq
             /\ s.last_received_seq <= run[m].last_received_seq
           Order(m) == Highest(m) /\ (run[m].out_of_order = 0 => Sorted(m))
           T == {m \in 0 .. Len(pkts) : ~Order(m)}
<1>1. /\ run[0] = s /\ \A m \in 1 .. Len(pkts) : run[m] = Check(p, run[m - 1], pkts[m])
      /\ \A m \in 0 .. Len(pkts) : run[m] \in PortState
  BY LoopSteps, Zenon
<1> HIDE DEF run
<1>2. Len(pkts) \in Nat /\ \A m \in 1 .. Len(pkts) : pkts[m] \in Packet /\ pkts[m].seq \in Nat
  <2>1. \A x \in Packet : x.seq \in Nat
    BY DEF Packet
  <2> QED BY <2>1
<1>3. 0 \notin T
  <2>1. s.last_received_seq \in Nat
    BY StateFields
  <2> QED BY <1>1, <2>1
<1>4. ASSUME NEW m \in 1 .. Len(pkts), m - 1 \notin T PROVE m \notin T
  <2>1. m - 1 \in 0 .. Len(pkts) /\ m \in 0 .. Len(pkts) /\ m \in Nat /\ m >= 1
    BY <1>2
  <2> DEFINE r == run[m - 1]
             pkt == pkts[m]
  <2>2. r \in PortState /\ pkt \in Packet /\ run[m] = Check(p, r, pkt) /\ Order(m - 1)
    BY <1>1, <1>2, <1>4, <2>1
  <2> HIDE DEF pkt
  <2>3. /\ run[m].out_of_order = r.out_of_order + One(Late(r, pkt.seq))
        /\ run[m].last_received_seq = IF Late(r, pkt.seq) THEN r.last_received_seq ELSE pkt.seq
    <3>1. /\ Check(p, r, pkt).out_of_order = r.out_of_order + One(Late(r, pkt.seq))
          /\ Check(p, r, pkt).last_received_seq =
               IF Late(r, pkt.seq) THEN r.last_received_seq ELSE pkt.seq
      BY <2>2, CheckIs, Zenon
    <3> QED BY <2>2, <3>1
  <2>4. /\ r.out_of_order \in Nat /\ r.last_received_seq \in Nat /\ pkt.seq \in Nat
        /\ s.last_received_seq \in Nat /\ pkts[m] = pkt
        /\ (Late(r, pkt.seq) <=> pkt.seq <= r.last_received_seq)
    BY <1>2, <2>2, StateFields DEF Late, pkt
  <2>5. Highest(m)
    <3>1. CASE Late(r, pkt.seq)
      <4>1. run[m].last_received_seq = r.last_received_seq
        BY <2>3, <3>1
      <4>2. \A j \in 1 .. m - 1 : j \in 1 .. m
        BY <2>1
      <4> QED BY <2>2, <4>1, <4>2
    <3>2. CASE ~Late(r, pkt.seq)
      BY <2>1, <2>3, <2>4, <3>2
    <3> QED BY <3>1, <3>2
  <2>6. ASSUME run[m].out_of_order = 0 PROVE Sorted(m)
    <3>1. r.out_of_order = 0 /\ ~Late(r, pkt.seq)
      BY <2>3, <2>4, <2>6, OneIs DEF One
    <3>2. Sorted(m - 1) /\ run[m].last_received_seq = pkt.seq /\ r.last_received_seq < pkt.seq
      BY <2>2, <2>3, <2>4, <3>1
    <3>3. \A i \in 1 .. m : i \in 1 .. m - 1 \/ i = m
      BY <2>1
    <3>4. ASSUME NEW i \in 1 .. m - 1
          PROVE  s.last_received_seq < pkts[i].seq /\ pkts[i].seq < pkt.seq
      <4>1. pkts[i].seq \in Nat
        BY <1>2, <2>1
      <4> QED BY <2>4, <3>2, <4>1
    <3>5. ASSUME NEW i \in 1 .. m, NEW j \in 1 .. m, i < j PROVE pkts[i].seq < pkts[j].seq
      <4>1. i \in 1 .. m - 1
        BY <2>1, <3>5
      <4>2. CASE j = m
        BY <2>4, <3>4, <4>1, <4>2
      <4>3. CASE j # m
        BY <3>2, <3>3, <3>5, <4>1, <4>3
      <4> QED BY <4>2, <4>3
    <3>6. s.last_received_seq < pkt.seq
      BY <2>4, <3>2
    <3>7. ASSUME NEW i \in 1 .. m
          PROVE  s.last_received_seq < pkts[i].seq /\ pkts[i].seq <= run[m].last_received_seq
      <4>1. pkts[i].seq \in Nat
        BY <1>2, <2>1
      <4> QED BY <2>4, <3>2, <3>3, <3>4, <3>6, <4>1
    <3> QED BY <2>4, <3>2, <3>5, <3>6, <3>7
  <2> QED BY <2>5, <2>6
<1>5. T = {}
  <2>1. T \in SUBSET (0 .. Len(pkts))
    OBVIOUS
  <2> HIDE DEF T
  <2> QED BY <1>2, <1>3, <1>4, <2>1, Counting
<1> QED BY <1>5 DEF run

\* Of known packets, none is damaged as long as bad_hash is zero.
LEMMA LoopHashes ==
  ASSUME NEW p \in Port, NEW s \in PortState, NEW pkts \in Seq(Packet),
         NEW k \in 0 .. Len(pkts), Checked(p, s, pkts)[k].bad_hash = 0
  PROVE  /\ s.bad_hash = 0
         /\ \A i \in 1 .. k : Known(Other(p), pkts[i].seq) => pkts[i].intact
<1> HIDE DEF PortState, Packet
<1> DEFINE run == Checked(p, s, pkts)
           Whole(m) == run[m].bad_hash = 0 =>
                         /\ s.bad_hash = 0
                         /\ \A i \in 1 .. m : Known(Other(p), pkts[i].seq) => pkts[i].intact
           T == {m \in 0 .. Len(pkts) : ~Whole(m)}
<1>1. /\ run[0] = s /\ \A m \in 1 .. Len(pkts) : run[m] = Check(p, run[m - 1], pkts[m])
      /\ \A m \in 0 .. Len(pkts) : run[m] \in PortState
  BY LoopSteps, Zenon
<1>6. run[k].bad_hash = 0
  OBVIOUS
<1> HIDE DEF run
<1>2. Len(pkts) \in Nat /\ \A m \in 1 .. Len(pkts) : pkts[m] \in Packet
  OBVIOUS
<1>3. 0 \notin T
  BY <1>1
<1>4. ASSUME NEW m \in 1 .. Len(pkts), m - 1 \notin T PROVE m \notin T
  <2>1. m - 1 \in 0 .. Len(pkts) /\ m \in 0 .. Len(pkts) /\ m \in Nat /\ m >= 1
    BY <1>2
  <2> DEFINE r == run[m - 1]
             pkt == pkts[m]
  <2>2. /\ r \in PortState /\ pkt \in Packet /\ run[m] = Check(p, r, pkt) /\ Whole(m - 1)
    BY <1>1, <1>2, <1>4, <2>1
  <2>3. run[m].bad_hash = r.bad_hash + One(Known(Other(p), pkt.seq) /\ ~pkt.intact)
    <3>1. Check(p, r, pkt).bad_hash = r.bad_hash + One(Known(Other(p), pkt.seq) /\ ~pkt.intact)
      BY <2>2, CheckIs, Zenon
    <3> QED BY <2>2, <3>1
  <2>4. ASSUME run[m].bad_hash = 0
        PROVE  /\ s.bad_hash = 0
               /\ \A i \in 1 .. m : Known(Other(p), pkts[i].seq) => pkts[i].intact
    <3>1. r.bad_hash \in Nat
      BY <2>2, StateFields
    <3>2. r.bad_hash = 0 /\ (Known(Other(p), pkt.seq) => pkt.intact)
      BY <2>2, <2>3, <2>4, <3>1 DEF One
    <3>3. /\ s.bad_hash = 0
          /\ \A i \in 1 .. m - 1 : Known(Other(p), pkts[i].seq) => pkts[i].intact
      BY <2>2, <3>2
    <3>4. \A i \in 1 .. m : i \in 1 .. m - 1 \/ i = m
      BY <2>1
    <3> QED BY <3>2, <3>3, <3>4
  <2> QED BY <2>4
<1>5. T = {}
  <2>1. T \in SUBSET (0 .. Len(pkts))
    OBVIOUS
  <2> HIDE DEF T
  <2> QED BY <1>2, <1>3, <1>4, <2>1, Counting
<1>7. Whole(k)
  BY <1>5
<1> QED BY <1>6, <1>7

\* Packets that are undamaged, in order and new raise no complaint.
LEMMA LoopClean ==
  ASSUME NEW p \in Port, NEW s \in PortState, NEW pkts \in Seq(Packet), Rising(pkts),
         \A i \in DOMAIN pkts : pkts[i].intact /\ s.last_received_seq < pkts[i].seq,
         NEW k \in 0 .. Len(pkts)
  PROVE  /\ Checked(p, s, pkts)[k].out_of_order = s.out_of_order
         /\ Checked(p, s, pkts)[k].bad_hash = s.bad_hash
         /\ Checked(p, s, pkts)[k].last_received_seq =
              IF k = 0 THEN s.last_received_seq ELSE pkts[k].seq
<1> HIDE DEF PortState, Packet
<1> DEFINE run == Checked(p, s, pkts)
           Clean(m) == /\ run[m].out_of_order = s.out_of_order
                       /\ run[m].bad_hash = s.bad_hash
                       /\ run[m].last_received_seq =
                            IF m = 0 THEN s.last_received_seq ELSE pkts[m].seq
           T == {m \in 0 .. Len(pkts) : ~Clean(m)}
<1>1. /\ run[0] = s /\ \A m \in 1 .. Len(pkts) : run[m] = Check(p, run[m - 1], pkts[m])
      /\ \A m \in 0 .. Len(pkts) : run[m] \in PortState
  BY LoopSteps, Zenon
<1> HIDE DEF run
<1>2. /\ Len(pkts) \in Nat /\ DOMAIN pkts = 1 .. Len(pkts)
      /\ \A m \in 1 .. Len(pkts) : pkts[m] \in Packet /\ pkts[m].seq \in Nat
  <2>1. \A x \in Packet : x.seq \in Nat
    BY DEF Packet
  <2> QED BY <2>1
<1>3. 0 \notin T
  BY <1>1
<1>4. ASSUME NEW m \in 1 .. Len(pkts), m - 1 \notin T PROVE m \notin T
  <2>1. m - 1 \in 0 .. Len(pkts) /\ m \in 0 .. Len(pkts) /\ m \in Nat /\ m >= 1
    BY <1>2
  <2> DEFINE r == run[m - 1]
             pkt == pkts[m]
  <2>2. /\ r \in PortState /\ pkt \in Packet /\ run[m] = Check(p, r, pkt) /\ Clean(m - 1)
        /\ pkt.intact /\ s.last_received_seq < pkt.seq
    BY <1>1, <1>2, <1>4, <2>1
  <2>3. /\ run[m].out_of_order = r.out_of_order + One(Late(r, pkt.seq))
        /\ run[m].bad_hash = r.bad_hash + One(Known(Other(p), pkt.seq) /\ ~pkt.intact)
        /\ run[m].last_received_seq = IF Late(r, pkt.seq) THEN r.last_received_seq ELSE pkt.seq
    <3>1. /\ Check(p, r, pkt).out_of_order = r.out_of_order + One(Late(r, pkt.seq))
          /\ Check(p, r, pkt).bad_hash = r.bad_hash + One(Known(Other(p), pkt.seq) /\ ~pkt.intact)
          /\ Check(p, r, pkt).last_received_seq =
               IF Late(r, pkt.seq) THEN r.last_received_seq ELSE pkt.seq
      BY <2>2, CheckIs, Zenon
    <3> QED BY <2>2, <3>1
  <2>4. /\ r.out_of_order \in Nat /\ r.bad_hash \in Nat /\ r.last_received_seq \in Nat
        /\ pkt.seq \in Nat
    BY <1>2, <2>2, StateFields
  <2>5. r.last_received_seq < pkt.seq
    <3>1. CASE m = 1
      BY <2>2, <3>1
    <3>2. CASE m # 1
      <4>1. m - 1 \in DOMAIN pkts /\ m \in DOMAIN pkts /\ m - 1 < m /\ m - 1 # 0
        BY <1>2, <2>1, <3>2
      <4> QED BY <2>2, <4>1 DEF Rising
    <3> QED BY <3>1, <3>2
  <2>6. One(Late(r, pkt.seq)) = 0 /\ One(Known(Other(p), pkt.seq) /\ ~pkt.intact) = 0
        /\ ~Late(r, pkt.seq)
    BY <2>2, <2>4, <2>5 DEF One, Late
  <2>7. Clean(m)
    BY <2>1, <2>2, <2>3, <2>4, <2>6
  <2> QED BY <2>7
<1>5. T = {}
  <2>1. T \in SUBSET (0 .. Len(pkts))
    OBVIOUS
  <2> HIDE DEF T
  <2> QED BY <1>2, <1>3, <1>4, <2>1, Counting
<1> QED BY <1>5 DEF run

-----------------------------------------------------------------------------
(* The deficits.                                                           *)

\* The buffers of one port, in numbers.
Numbers ==
  \A p \in Port :
    /\ bufs[p] \in Nat /\ fq[p] \in 0 .. RingSize /\ cq[p] \in 0 .. RingSize
    /\ cqDeficit[p] \in Nat /\ fqDeficit[p] \in Nat
    /\ tx[p] \in Seq(Packet) /\ rx[p] \in Seq(Packet)
    /\ pendSend[p] \in Seq(Packet) /\ pendRecv[p] \in Seq(Packet)
    /\ Len(tx[p]) \in 0 .. RingSize /\ Len(rx[p]) \in 0 .. RingSize
    /\ Len(pendSend[p]) \in 0 .. PendingLen /\ Len(pendRecv[p]) \in 0 .. PendingLen
    /\ portState[p] \in PortState /\ pc[p] \in Step /\ now[p] \in 0 .. MaxTime

LEMMA InvNumbers == BufferInv => Numbers
<1> HIDE DEF Packet, PortState
<1> SUFFICES ASSUME BufferInv, NEW p \in Port
             PROVE  /\ bufs[p] \in Nat /\ fq[p] \in 0 .. RingSize /\ cq[p] \in 0 .. RingSize
                    /\ cqDeficit[p] \in Nat /\ fqDeficit[p] \in Nat
                    /\ tx[p] \in Seq(Packet) /\ rx[p] \in Seq(Packet)
                    /\ pendSend[p] \in Seq(Packet) /\ pendRecv[p] \in Seq(Packet)
                    /\ Len(tx[p]) \in 0 .. RingSize /\ Len(rx[p]) \in 0 .. RingSize
                    /\ Len(pendSend[p]) \in 0 .. PendingLen
                    /\ Len(pendRecv[p]) \in 0 .. PendingLen
                    /\ portState[p] \in PortState /\ pc[p] \in Step /\ now[p] \in 0 .. MaxTime
  BY DEF Numbers
<1> QED BY Constants DEF BufferInv, TrafficTypeOK

\* What fill takes is there and has room.
LEMMA FilledFacts ==
  ASSUME BufferInv, NEW p \in Port, NEW n \in Nat
  PROVE  /\ Filled(p, n) \in Nat /\ Filled(p, n) <= bufs[p] /\ Filled(p, n) <= n
         /\ fq[p] + Filled(p, n) <= RingSize
         /\ n <= bufs[p] /\ fq[p] + n <= RingSize => Filled(p, n) = n
<1>1. bufs[p] \in Nat /\ fq[p] \in 0 .. RingSize /\ RingSize \in Nat
  BY InvNumbers, Constants DEF Numbers
<1> QED BY <1>1, SmallerFacts DEF Filled, Smaller

\* What DeficitsTrue and Ledger say of a port.
PortLedger(p) ==
  /\ bufs[p] + Len(pendSend[p]) + Len(tx[p]) + cq[p]
       + fq[p] + Len(rx[p]) + Len(pendRecv[p]) = BufNum
  /\ cqDeficit[p] = Len(tx[p]) + cq[p]
  /\ pc[p] # "fill" => fq[p] + Len(rx[p]) + fqDeficit[p] = RingSize
  /\ pc[p] = "fill" => bufs[p] = BufNum /\ fqDeficit[p] = 0
  /\ pc[p] # "receive" => pendRecv[p] = <<>>
  /\ portState[p].transmitted <= Total

LEMMA InvPorts == BufferInv <=> TrafficTypeOK /\ \A p \in Port : PortLedger(p)
BY DEF BufferInv, DeficitsTrue, Ledger, PortLedger, Started, At

\* The state without the bounds that follow from the ledger.
Types ==
  /\ portState \in [Port -> PortState] /\ done \in BOOLEAN /\ doneTime \in Nat
  /\ pc \in [Port -> Step] /\ now \in [Port -> 0 .. MaxTime]
  /\ clock \in 0 .. MaxTime /\ faults \in 0 .. MaxFaults
  /\ verdict \in {"none", "passed", "failed"} /\ got \in [Port -> Seq(Packet)]
  /\ unchecked \in [Port -> SUBSET Nat]
  /\ pendSend \in [Port -> Seq(Packet)] /\ pendRecv \in [Port -> Seq(Packet)]
  /\ tx \in [Port -> Seq(Packet)] /\ rx \in [Port -> Seq(Packet)]
  /\ bufs \in [Port -> Nat] /\ fq \in [Port -> Nat] /\ cq \in [Port -> Nat]
  /\ cqDeficit \in [Port -> Nat] /\ fqDeficit \in [Port -> Nat]

Room(p) ==
  /\ Len(pendSend[p]) <= PendingLen /\ Len(pendRecv[p]) <= PendingLen
  /\ Len(tx[p]) <= RingSize /\ Len(rx[p]) <= RingSize
  /\ cq[p] <= RingSize /\ fq[p] <= RingSize

\* The invariant, port by port.
LEMMA ByPort == BufferInv <=> Types /\ \A p \in Port : Room(p) /\ PortLedger(p)
<1> HIDE DEF Packet, PortState, Step
<1>1. ASSUME BufferInv PROVE Types /\ \A p \in Port : Room(p) /\ PortLedger(p)
  <2>1. TrafficTypeOK /\ \A p \in Port : PortLedger(p)
    BY <1>1, InvPorts
  <2>2. /\ bufs \in [Port -> Nat] /\ cqDeficit \in [Port -> Nat] /\ fqDeficit \in [Port -> Nat]
        /\ fq \in [Port -> Nat] /\ cq \in [Port -> Nat]
    BY <2>1, Constants DEF TrafficTypeOK
  <2>3. Types
    BY <2>1, <2>2, Zenon DEF TrafficTypeOK, Types
  <2>4. \A p \in Port : Room(p)
    BY <2>1, Constants DEF TrafficTypeOK, Room
  <2> QED BY <2>1, <2>3, <2>4
<1>2. ASSUME Types, \A p \in Port : Room(p) /\ PortLedger(p) PROVE BufferInv
  <2>1. ASSUME NEW p \in Port
        PROVE  /\ bufs[p] \in 0 .. BufNum /\ fq[p] \in 0 .. RingSize /\ cq[p] \in 0 .. RingSize
               /\ cqDeficit[p] \in 0 .. BufNum /\ fqDeficit[p] \in 0 .. BufNum
    <3>1. /\ bufs[p] \in Nat /\ fq[p] \in Nat /\ cq[p] \in Nat
          /\ cqDeficit[p] \in Nat /\ fqDeficit[p] \in Nat
          /\ Len(pendSend[p]) \in Nat /\ Len(pendRecv[p]) \in Nat
          /\ Len(tx[p]) \in Nat /\ Len(rx[p]) \in Nat
      BY <1>2 DEF Types
    <3>2. PortLedger(p) /\ cq[p] <= RingSize /\ fq[p] <= RingSize
      BY <1>2 DEF Room
    <3>3. bufs[p] <= BufNum /\ cqDeficit[p] <= BufNum
      <4>1. /\ bufs[p] + Len(pendSend[p]) + Len(tx[p]) + cq[p]
                 + fq[p] + Len(rx[p]) + Len(pendRecv[p]) = BufNum
            /\ cqDeficit[p] = Len(tx[p]) + cq[p]
        BY <3>2 DEF PortLedger
      <4> DEFINE b == bufs[p]
                 s == Len(pendSend[p])
                 t == Len(tx[p])
                 c == cq[p]
                 f == fq[p]
                 r == Len(rx[p])
                 d == Len(pendRecv[p])
      <4>2. /\ b \in Nat /\ s \in Nat /\ t \in Nat /\ c \in Nat /\ f \in Nat
            /\ r \in Nat /\ d \in Nat
            /\ b + s + t + c + f + r + d = BufNum /\ cqDeficit[p] = t + c
        BY <3>1, <4>1
      <4> HIDE DEF b, s, t, c, f, r, d
      <4>3. b <= BufNum /\ t + c <= BufNum
        BY <4>2, Constants
      <4> QED BY <4>2, <4>3 DEF b
    <3>4. fqDeficit[p] <= BufNum
      <4>1. RingSize <= BufNum /\ RingSize \in Nat /\ BufNum \in Nat
        BY Constants
      <4>2. fqDeficit[p] = 0 \/ fq[p] + Len(rx[p]) + fqDeficit[p] = RingSize
        BY <3>2 DEF PortLedger
      <4> QED BY <3>1, <4>1, <4>2
    <3> QED BY <3>1, <3>2, <3>3, <3>4, Constants
  <2>2. \A p \in Port : /\ Len(pendSend[p]) <= PendingLen /\ Len(pendRecv[p]) <= PendingLen
                        /\ Len(tx[p]) <= RingSize /\ Len(rx[p]) <= RingSize
    BY <1>2 DEF Room
  <2>3. TrafficTypeOK
    <3>1. /\ bufs \in [Port -> 0 .. BufNum] /\ fq \in [Port -> 0 .. RingSize]
          /\ cq \in [Port -> 0 .. RingSize]
          /\ cqDeficit \in [Port -> 0 .. BufNum] /\ fqDeficit \in [Port -> 0 .. BufNum]
      BY <1>2, <2>1 DEF Types
    <3> QED BY <1>2, <2>2, <3>1, Zenon DEF TrafficTypeOK, Types
  <2> QED BY <1>2, <2>3, InvPorts
<1> QED BY <1>1, <1>2

LEMMA ByPortNext ==
  ASSUME Types', \A p \in Port : Room(p)' /\ PortLedger(p)' PROVE BufferInv'
<1>1. (Types /\ \A p \in Port : Room(p) /\ PortLedger(p))' => BufferInv'
  BY ByPort, PTL
<1> QED BY <1>1

\* A port nothing happens to.
Unmoved(q) ==
  /\ bufs'[q] = bufs[q] /\ fq'[q] = fq[q] /\ cq'[q] = cq[q] /\ tx'[q] = tx[q] /\ rx'[q] = rx[q]
  /\ pendSend'[q] = pendSend[q] /\ pendRecv'[q] = pendRecv[q]
  /\ cqDeficit'[q] = cqDeficit[q] /\ fqDeficit'[q] = fqDeficit[q]
  /\ pc'[q] = pc[q] /\ portState'[q] = portState[q]

\* The numbers of a port past its initial fill: its buffers by where they are.
LEMMA Counted ==
  ASSUME Numbers, NEW p \in Port, Room(p), PortLedger(p), pc[p] # "fill"
  PROVE  /\ bufs[p] \in Nat /\ Len(pendSend[p]) \in Nat /\ Len(tx[p]) \in Nat
         /\ cq[p] \in Nat /\ fq[p] \in Nat /\ Len(rx[p]) \in Nat
         /\ Len(pendRecv[p]) \in Nat /\ cqDeficit[p] \in Nat /\ fqDeficit[p] \in Nat
         /\ bufs[p] + Len(pendSend[p]) + Len(tx[p]) + cq[p]
              + fq[p] + Len(rx[p]) + Len(pendRecv[p]) = BufNum
         /\ cqDeficit[p] = Len(tx[p]) + cq[p]
         /\ fq[p] + Len(rx[p]) + fqDeficit[p] = RingSize
         /\ Len(pendSend[p]) <= PendingLen /\ Len(pendRecv[p]) <= PendingLen
         /\ Len(tx[p]) <= RingSize /\ Len(rx[p]) <= RingSize
         /\ cq[p] <= RingSize /\ fq[p] <= RingSize
<1> HIDE DEF Packet, PortState
<1>1. /\ bufs[p] \in Nat /\ cq[p] \in Nat /\ fq[p] \in Nat
      /\ cqDeficit[p] \in Nat /\ fqDeficit[p] \in Nat
  BY Constants DEF Numbers
<1>2. /\ Len(pendSend[p]) \in Nat /\ Len(tx[p]) \in Nat
      /\ Len(rx[p]) \in Nat /\ Len(pendRecv[p]) \in Nat
  BY Constants DEF Numbers
<1>3. /\ bufs[p] + Len(pendSend[p]) + Len(tx[p]) + cq[p]
           + fq[p] + Len(rx[p]) + Len(pendRecv[p]) = BufNum
      /\ cqDeficit[p] = Len(tx[p]) + cq[p]
      /\ fq[p] + Len(rx[p]) + fqDeficit[p] = RingSize
  BY DEF PortLedger
<1>4. /\ Len(pendSend[p]) <= PendingLen /\ Len(pendRecv[p]) <= PendingLen
      /\ Len(tx[p]) <= RingSize /\ Len(rx[p]) <= RingSize
      /\ cq[p] <= RingSize /\ fq[p] <= RingSize
  BY DEF Room
<1> QED BY <1>1, <1>2, <1>3, <1>4

\* A step of the thread of port p.
LEMMA StepOf ==
  ASSUME BufferInv, NEW p \in Port, Types', \A q \in Port \ {p} : Unmoved(q),
         Room(p)', PortLedger(p)'
  PROVE  BufferInv'
<1>1. ASSUME NEW q \in Port \ {p} PROVE Room(q)' /\ PortLedger(q)'
  <2>1. Room(q) /\ PortLedger(q) /\ Unmoved(q)
    BY ByPort
  <2> QED BY <2>1 DEF Room, PortLedger, Unmoved
<1> QED BY <1>1, ByPortNext

LEMMA BuffersStart == Init => BufferInv
<1> SUFFICES ASSUME Init PROVE BufferInv
  OBVIOUS
<1>1. portState \in [Port -> PortState]
  BY DEF Init, TestInit, PortState
<1>2. /\ done \in BOOLEAN /\ doneTime \in Nat
      /\ clock \in 0 .. MaxTime /\ faults \in 0 .. MaxFaults
      /\ now \in [Port -> 0 .. MaxTime]
  <2>1. /\ done = FALSE /\ doneTime = EndTime + Padding /\ clock = 0 /\ faults = 0
        /\ now = [p \in Port |-> 0]
    BY DEF Init, TestInit
  <2>2. done \in BOOLEAN
    BY <2>1
  <2>3. doneTime \in Nat
    BY <2>1, Constants
  <2>4. clock \in 0 .. MaxTime /\ faults \in 0 .. MaxFaults
    BY <2>1, Constants
  <2>5. now \in [Port -> 0 .. MaxTime]
    BY <2>1, Constants
  <2> QED BY <2>2, <2>3, <2>4, <2>5
<1>6. /\ pc \in [Port -> Step] /\ verdict \in {"none", "passed", "failed"}
      /\ \A p \in Port : portState[p].transmitted = 0
  BY DEF Init, TestInit, Step
<1> HIDE DEF Packet, PortState
<1>3. /\ got \in [Port -> Seq(Packet)] /\ unchecked \in [Port -> SUBSET Nat]
      /\ pendSend \in [Port -> Seq(Packet)] /\ pendRecv \in [Port -> Seq(Packet)]
      /\ tx \in [Port -> Seq(Packet)] /\ rx \in [Port -> Seq(Packet)]
  BY DEF Init
<1>4. /\ bufs \in [Port -> Nat] /\ fq \in [Port -> Nat] /\ cq \in [Port -> Nat]
      /\ cqDeficit \in [Port -> Nat] /\ fqDeficit \in [Port -> Nat]
  BY Constants DEF Init
<1>5. ASSUME NEW p \in Port
      PROVE  Room(p) /\ PortLedger(p)
  BY <1>6, Constants DEF Init, PortLedger, Room
<1> QED BY <1>1, <1>2, <1>3, <1>4, <1>5, <1>6, ByPort DEF Types

LEMMA InitialFillDeficits ==
  ASSUME BufferInv, NEW p \in Port, InitialFill(p) PROVE BufferInv'
<1> HIDE DEF Packet, PortState
<1>1. Types /\ Room(p) /\ PortLedger(p) /\ Numbers
  BY ByPort, InvNumbers
<1>2. bufs[p] = BufNum /\ fqDeficit[p] = 0 /\ fq[p] = 0 /\ Len(rx[p]) = 0 /\ pc[p] = "fill"
  <2> DEFINE s == Len(pendSend[p])
             t == Len(tx[p])
             c == cq[p]
             f == fq[p]
             r == Len(rx[p])
             d == Len(pendRecv[p])
  <2>1. /\ s \in Nat /\ t \in Nat /\ c \in Nat /\ f \in Nat /\ r \in Nat /\ d \in Nat
    BY <1>1 DEF Numbers
  <2>2. /\ bufs[p] = BufNum /\ fqDeficit[p] = 0 /\ bufs[p] + s + t + c + f + r + d = BufNum
        /\ pc[p] = "fill"
    BY <1>1 DEF InitialFill, At, PortLedger
  <2>3. BufNum \in Nat /\ BufNum + s + t + c + f + r + d = BufNum
    BY <2>2, Constants
  <2> HIDE DEF s, t, c, f, r, d
  <2>4. f = 0 /\ r = 0
    BY <2>1, <2>3
  <2> QED BY <2>2, <2>4 DEF f, r
<1>3. Filled(p, RingSize) = RingSize
  BY <1>2, FilledFacts, Constants
<1>4. /\ bufs' = [bufs EXCEPT ![p] = BufNum - RingSize]
      /\ fq' = [fq EXCEPT ![p] = RingSize] /\ pc' = [pc EXCEPT ![p] = "time"]
      /\ UNCHANGED <<portState, done, doneTime, now, pendSend, pendRecv, cqDeficit,
                     fqDeficit, cq, tx, rx, clock, faults, verdict, got, unchecked>>
  BY <1>1, <1>2, <1>3, Constants
     DEF InitialFill, Fill, Goto, Types, testVars, worldVars, history
<1>5. BufNum - RingSize \in Nat /\ RingSize \in Nat
  BY Constants
<1>6. Types'
  BY <1>1, <1>4, <1>5 DEF Types, Step
<1>7. Room(p)' /\ PortLedger(p)'
  <2> DEFINE s == Len(pendSend[p])
             t == Len(tx[p])
             d == Len(pendRecv[p])
  <2>1. s \in Nat /\ t \in Nat /\ d \in Nat /\ cq[p] \in Nat
    BY <1>1 DEF Numbers
  <2>2. /\ bufs'[p] = BufNum - RingSize /\ fq'[p] = RingSize /\ pc'[p] = "time"
        /\ Len(pendSend'[p]) = s /\ Len(tx'[p]) = t /\ Len(pendRecv'[p]) = d
        /\ Len(rx'[p]) = 0 /\ cq'[p] = cq[p] /\ cqDeficit'[p] = cqDeficit[p]
        /\ fqDeficit'[p] = 0 /\ pendRecv'[p] = pendRecv[p] /\ portState'[p] = portState[p]
    BY <1>1, <1>2, <1>4 DEF Types
  <2>3. /\ BufNum + s + t + cq[p] + 0 + 0 + d = BufNum /\ cqDeficit[p] = t + cq[p]
        /\ pendRecv[p] = <<>> /\ portState[p].transmitted <= Total
    BY <1>1, <1>2 DEF PortLedger
  <2>4. RingSize \in Nat /\ BufNum \in Nat /\ BufNum - RingSize \in Nat
    BY Constants
  <2> HIDE DEF s, t, d
  <2>5. (BufNum - RingSize) + s + t + cq[p] + RingSize + 0 + d = BufNum
    BY <2>1, <2>3, <2>4
  <2>6. PortLedger(p)'
    BY <2>2, <2>3, <2>4, <2>5 DEF PortLedger
  <2>7. Room(p)'
    BY <1>1, <2>2, <2>4 DEF Room, s, t, d
  <2> QED BY <2>6, <2>7
<1>8. \A q \in Port \ {p} : Unmoved(q)
  BY <1>1, <1>4 DEF Types, Unmoved
<1> QED BY <1>6, <1>7, <1>8, StepOf

LEMMA ServiceDeficits ==
  ASSUME BufferInv, NEW p \in Port, Service(p) PROVE BufferInv'
<1> HIDE DEF Packet, PortState
<1>1. Types /\ Room(p) /\ PortLedger(p) /\ Numbers
  BY ByPort, InvNumbers
<1> DEFINE n == IF cqDeficit[p] >= ServiceThreshold THEN Smaller(ServiceBatch, cq[p]) ELSE 0
<1>2. n \in Nat /\ n <= cq[p] /\ n <= cqDeficit[p]
  <2>1. cq[p] \in Nat /\ cqDeficit[p] \in Nat /\ Len(tx[p]) \in Nat /\ ServiceBatch \in Nat
    BY <1>1, Constants DEF Numbers
  <2>2. Smaller(ServiceBatch, cq[p]) \in Nat /\ Smaller(ServiceBatch, cq[p]) <= cq[p]
    BY <2>1, SmallerFacts
  <2>3. n \in Nat /\ n <= cq[p]
    BY <2>1, <2>2
  <2>4. cqDeficit[p] = Len(tx[p]) + cq[p]
    BY <1>1 DEF PortLedger
  <2> HIDE DEF n
  <2> QED BY <2>1, <2>3, <2>4
<1>3. /\ pc' = [pc EXCEPT ![p] = "recv"] /\ pc[p] = "service"
      /\ bufs' = [bufs EXCEPT ![p] = @ + n] /\ cq' = [cq EXCEPT ![p] = @ - n]
      /\ cqDeficit' = [cqDeficit EXCEPT ![p] = @ - n]
      /\ UNCHANGED <<portState, done, doneTime, now, pendSend, pendRecv,
                     fqDeficit, fq, tx, rx, clock, faults, verdict, got, unchecked>>
  BY <1>1, Constants DEF Service, Serviced, Goto, At, Numbers, Types, testVars, worldVars, history
<1> HIDE DEF n
<1>4. Types'
  <2>1. bufs[p] + n \in Nat /\ cq[p] - n \in Nat /\ cqDeficit[p] - n \in Nat
    BY <1>1, <1>2 DEF Numbers
  <2> QED BY <1>1, <1>3, <2>1 DEF Types, Step
<1>5. Room(p)' /\ PortLedger(p)'
  <2> DEFINE b == bufs[p]
             s == Len(pendSend[p])
             t == Len(tx[p])
             c == cq[p]
             f == fq[p]
             r == Len(rx[p])
             d == Len(pendRecv[p])
             x == cqDeficit[p]
             y == fqDeficit[p]
  <2>1. /\ b \in Nat /\ s \in Nat /\ t \in Nat /\ c \in Nat /\ f \in Nat /\ r \in Nat /\ d \in Nat
        /\ x \in Nat /\ y \in Nat /\ b + s + t + c + f + r + d = BufNum /\ x = t + c
        /\ f + r + y = RingSize /\ s <= PendingLen /\ d <= PendingLen
        /\ t <= RingSize /\ r <= RingSize /\ c <= RingSize /\ f <= RingSize
    BY <1>1, <1>3, Counted
  <2>7. n \in Nat /\ n <= c /\ n <= x
    BY <1>1, <1>2, <1>3 DEF Numbers, PortLedger
  <2>2. /\ bufs'[p] = b + n /\ Len(pendSend'[p]) = s /\ Len(tx'[p]) = t
        /\ cq'[p] = c - n /\ fq'[p] = f /\ Len(rx'[p]) = r
        /\ Len(pendRecv'[p]) = d /\ cqDeficit'[p] = x - n /\ fqDeficit'[p] = y
        /\ pc'[p] = "recv"
    BY <1>1, <1>3 DEF Types
  <2> HIDE DEF b, s, t, c, f, r, d, x, y
  <2>4. /\ (b + n) + s + t + (c - n) + f + r + d = BufNum
        /\ x - n = t + (c - n) /\ f + r + y = RingSize
        /\ s <= PendingLen /\ d <= PendingLen /\ t <= RingSize
        /\ r <= RingSize /\ c - n <= RingSize /\ f <= RingSize
    BY <2>1, <2>7, Constants
  <2>5. PortLedger(p)'
    BY <1>1, <1>3, <2>2, <2>4 DEF PortLedger, Types
  <2>6. Room(p)'
    BY <2>2, <2>4 DEF Room
  <2> QED BY <2>5, <2>6
<1>6. \A q \in Port \ {p} : Unmoved(q)
  BY <1>1, <1>3 DEF Types, Unmoved
<1> QED BY <1>4, <1>5, <1>6, StepOf

\* What transmit queues fits, and does not exceed the total.
LEMMA QueuedFacts ==
  ASSUME NEW p \in Port, NEW t, NEW room \in Nat, portState[p].transmitted \in Nat,
         portState[p].transmitted <= Total
  PROVE  /\ Queued(p, t, room) \in Nat /\ Queued(p, t, room) <= room
         /\ Queued(p, t, room) <= Total - portState[p].transmitted
         /\ Queued(p, t, room) > 0 => Due(p, t)
<1>1. Unsent(p) \in Nat /\ Unsent(p) = Total - portState[p].transmitted
  BY Constants DEF Unsent
<1>2. /\ PacketCount(p, room) \in Nat /\ PacketCount(p, room) <= room
      /\ PacketCount(p, room) <= Unsent(p)
  <2>1. CASE Unsent(p) >= BurstSize
    BY <1>1, <2>1, Constants DEF PacketCount, Burst
  <2>2. CASE ~(Unsent(p) >= BurstSize)
    BY <1>1, <2>2, SmallerFacts DEF PacketCount
  <2> QED BY <2>1, <2>2
<1> QED BY <1>1, <1>2 DEF Queued

\* What transmit does to the PortState of a port.
LEMMA Transmitted ==
  ASSUME portState \in [Port -> PortState], NEW p \in Port, NEW t \in Nat, NEW room \in Nat,
         portState[p].transmitted <= Total, Transmit(p, t, room)
  PROVE  /\ portState' \in [Port -> PortState] /\ UNCHANGED <<done, doneTime>>
         /\ portState'[p].transmitted = portState[p].transmitted + Queued(p, t, room)
         /\ portState'[p].seq = portState[p].seq + Queued(p, t, room)
         /\ portState'[p].received = portState[p].received
         /\ portState'[p].out_of_order = portState[p].out_of_order
         /\ portState'[p].bad_hash = portState[p].bad_hash
         /\ portState'[p].duplicated = portState[p].duplicated
         /\ portState'[p].last_received_seq = portState[p].last_received_seq
         /\ \A q \in Port \ {p} : portState'[q] = portState[q]
<1> DEFINE n == Queued(p, t, room)
           s == portState[p]
<1>1. s \in PortState /\ s.transmitted \in Nat /\ s.seq \in Nat
  BY StateFields
<1>2. n \in Nat /\ (n > 0 => Due(p, t))
  BY <1>1, QueuedFacts
<1>3. UNCHANGED <<done, doneTime>>
  BY DEF Transmit
<1>4. CASE Due(p, t) /\ (n > 0 \/ Unsent(p) < BurstSize)
  <2> DEFINE new == [s EXCEPT !.seq = @ + n, !.transmitted = @ + n, !.last_time = t]
  <2>1. portState' = [portState EXCEPT ![p] = new]
    <3>1. portState' = [portState EXCEPT ![p].seq = @ + n, ![p].transmitted = @ + n,
                                         ![p].last_time = t]
      BY <1>4, Zenon DEF Transmit
    <3> HIDE DEF n
    <3> QED BY <3>1 DEF PortState
  <2>2. /\ new \in PortState /\ new.transmitted = s.transmitted + n /\ new.seq = s.seq + n
        /\ new.received = s.received /\ new.out_of_order = s.out_of_order
        /\ new.bad_hash = s.bad_hash /\ new.duplicated = s.duplicated
        /\ new.last_received_seq = s.last_received_seq
    <3> DEFINE a == s.seq + n
               b == s.transmitted + n
    <3>1. a \in Nat /\ b \in Nat
      BY <1>1, <1>2
    <3>2. new = [s EXCEPT !.seq = a, !.transmitted = b, !.last_time = t]
      OBVIOUS
    <3> HIDE DEF a, b
    <3> DEFINE c == [s EXCEPT !.seq = a, !.transmitted = b, !.last_time = t]
    <3>3. /\ c \in PortState /\ c.transmitted = b /\ c.seq = a
          /\ c.received = s.received /\ c.out_of_order = s.out_of_order
          /\ c.bad_hash = s.bad_hash /\ c.duplicated = s.duplicated
          /\ c.last_received_seq = s.last_received_seq
      BY <1>1, <3>1 DEF PortState
    <3> HIDE DEF c
    <3> QED BY <3>2, <3>3 DEF a, b, c
  <2> HIDE DEF new, n, PortState
  <2> QED BY <1>3, <2>1, <2>2 DEF n
<1>5. CASE ~(Due(p, t) /\ (n > 0 \/ Unsent(p) < BurstSize))
  <2>1. portState' = portState
    BY <1>5, Zenon DEF Transmit
  <2>2. n = 0
    BY <1>2, <1>5
  <2> HIDE DEF n
  <2> QED BY <1>1, <1>3, <2>1, <2>2 DEF n
<1> QED BY <1>4, <1>5

\* The packets transmit makes.
LEMMA FreshPackets ==
  ASSUME NEW p \in Port, portState[p] \in PortState, NEW n \in Nat
  PROVE  /\ NewPackets(p, n) \in Seq(Packet) /\ Len(NewPackets(p, n)) = n
         /\ \A k \in 1 .. n : NewPackets(p, n)[k].seq = portState[p].seq + k
                              /\ NewPackets(p, n)[k].intact
<1>1. portState[p].seq \in Nat
  BY StateFields
<1>2. \A k \in 1 .. n : [seq |-> portState[p].seq + k, intact |-> TRUE] \in Packet
  BY <1>1 DEF Packet
<1> QED BY <1>2 DEF NewPackets

LEMMA ReadTimeDeficits ==
  ASSUME BufferInv, NEW p \in Port, ReadTime(p) PROVE BufferInv'
<1> HIDE DEF Packet, PortState
<1>1. Types /\ Room(p) /\ PortLedger(p) /\ Numbers
  BY ByPort, InvNumbers
<1>2. /\ pc' = [pc EXCEPT ![p] = "done"] /\ pc[p] = "time" /\ now' = [now EXCEPT ![p] = clock]
      /\ UNCHANGED <<portState, done, doneTime, bufs, pendSend, pendRecv, cqDeficit, fqDeficit,
                     fq, cq, tx, rx, clock, faults, verdict, got, unchecked>>
  BY DEF ReadTime, Goto, At, testVars, threadVars, sockVars, worldVars, history
<1>3. Types'
  BY <1>1, <1>2 DEF Types, Step
<1>4. Room(p)' /\ PortLedger(p)'
  BY <1>1, <1>2 DEF Types, Room, PortLedger
<1>5. \A q \in Port \ {p} : Unmoved(q)
  BY <1>1, <1>2 DEF Types, Unmoved
<1> QED BY <1>3, <1>4, <1>5, StepOf

LEMMA CheckDoneDeficits ==
  ASSUME BufferInv, NEW p \in Port, CheckDone(p) PROVE BufferInv'
<1> HIDE DEF Packet, PortState
<1>1. Types /\ Room(p) /\ PortLedger(p) /\ Numbers
  BY ByPort, InvNumbers
<1>2. /\ pc' = [pc EXCEPT ![p] = IF IsDone(now[p]) THEN "exited" ELSE "service"]
      /\ pc[p] = "done"
      /\ UNCHANGED <<portState, now, bufs, pendSend, pendRecv, cqDeficit, fqDeficit,
                     fq, cq, tx, rx, clock, faults, verdict, got, unchecked>>
  BY DEF CheckDone, NoteDone, Goto, At, threadVars, sockVars, worldVars, history
<1>3. Types'
  <2>1. done' \in BOOLEAN /\ doneTime' \in Nat
    <3>1. now[p] + Padding \in Nat
      BY <1>1, Constants DEF Numbers
    <3>2. NoteDone(now[p]) /\ done \in BOOLEAN /\ doneTime \in Nat
      BY <1>1 DEF CheckDone, Types
    <3>3. \/ done' = TRUE /\ doneTime' = now[p] + Padding
          \/ done' = done /\ doneTime' = doneTime
      BY <3>2, Zenon DEF NoteDone
    <3> QED BY <3>1, <3>2, <3>3
  <2> HIDE DEF IsDone
  <2>2. (IF IsDone(now[p]) THEN "exited" ELSE "service") \in Step
    BY DEF Step
  <2> QED BY <1>1, <1>2, <2>1, <2>2 DEF Types
<1>4. Room(p)' /\ PortLedger(p)'
  <2> HIDE DEF IsDone
  <2>1. pc'[p] # "fill" /\ pc'[p] # "receive"
    BY <1>1, <1>2 DEF Types
  <2> QED BY <1>1, <1>2, <2>1 DEF Types, Room, PortLedger
<1>5. \A q \in Port \ {p} : Unmoved(q)
  BY <1>1, <1>2 DEF Types, Unmoved
<1> QED BY <1>3, <1>4, <1>5, StepOf

LEMMA TryRecvDeficits ==
  ASSUME BufferInv, NEW p \in Port, TryRecv(p) PROVE BufferInv'
<1> HIDE DEF Packet, PortState
<1>1. Types /\ Room(p) /\ PortLedger(p) /\ Numbers
  BY ByPort, InvNumbers
<1> DEFINE n == Smaller(Smaller(PendingLen - Len(pendRecv[p]), SocketBatch), Len(rx[p]))
<1>2. /\ n \in Nat /\ n <= Len(rx[p]) /\ n <= PendingLen /\ pc[p] = "recv"
      /\ pendRecv[p] = <<>> /\ n \in 0 .. Len(rx[p])
  <2>1. pc[p] = "recv" /\ pendRecv[p] = <<>>
    BY <1>1 DEF TryRecv, At, PortLedger
  <2>2. PendingLen - Len(pendRecv[p]) = PendingLen /\ Len(rx[p]) \in Nat
    BY <1>1, <2>1, Constants DEF Numbers
  <2>3. /\ Smaller(PendingLen, SocketBatch) \in Nat
        /\ Smaller(PendingLen, SocketBatch) <= PendingLen
    BY SmallerFacts, Constants
  <2>4. /\ n = Smaller(Smaller(PendingLen, SocketBatch), Len(rx[p]))
        /\ n \in Nat /\ n <= Len(rx[p]) /\ n <= Smaller(PendingLen, SocketBatch)
    BY <2>2, <2>3, SmallerFacts
  <2> HIDE DEF n
  <2>5. n <= PendingLen
    BY <2>3, <2>4, Constants
  <2> QED BY <2>1, <2>2, <2>4, <2>5
<1>3. /\ pc' = [pc EXCEPT ![p] = "receive"]
      /\ pendRecv' = [pendRecv EXCEPT ![p] = @ \o First(rx[p], n)]
      /\ rx' = [rx EXCEPT ![p] = Rest(rx[p], n)]
      /\ fqDeficit' = [fqDeficit EXCEPT ![p] = @ + n]
      /\ UNCHANGED <<portState, done, doneTime, now, bufs, pendSend,
                     cqDeficit, fq, cq, tx, clock, faults, verdict, got, unchecked>>
  BY <1>1 DEF TryRecv, Charged, Goto, testVars, worldVars, history
<1> HIDE DEF n
<1> DEFINE head == First(rx[p], n)
           tail == Rest(rx[p], n)
           recv == pendRecv[p] \o head
<1>7. /\ head \in Seq(Packet) /\ Len(head) = n
      /\ tail \in Seq(Packet) /\ Len(tail) = Len(rx[p]) - n
      /\ recv \in Seq(Packet) /\ Len(recv) = Len(pendRecv[p]) + n
  <2>1. rx[p] \in Seq(Packet) /\ pendRecv[p] \in Seq(Packet)
    BY <1>1 DEF Numbers
  <2>2. /\ head \in Seq(Packet) /\ Len(head) = n
        /\ tail \in Seq(Packet) /\ Len(tail) = Len(rx[p]) - n
    BY <1>2, <2>1, Cut
  <2> HIDE DEF head, tail
  <2> QED BY <2>1, <2>2, Joining
<1>8. pendRecv' = [pendRecv EXCEPT ![p] = recv] /\ rx' = [rx EXCEPT ![p] = tail]
  BY <1>1, <1>3 DEF Types
<1> HIDE DEF recv, tail, head
<1>4. Types'
  <2>1. fqDeficit[p] + n \in Nat /\ "receive" \in Step
    BY <1>1, <1>2 DEF Numbers, Step
  <2>2. recv \in Seq(Packet) /\ tail \in Seq(Packet)
    BY <1>7
  <2>3. /\ pc' = [pc EXCEPT ![p] = "receive"] /\ fqDeficit' = [fqDeficit EXCEPT ![p] = @ + n]
        /\ UNCHANGED <<portState, done, doneTime, now, bufs, pendSend,
                       cqDeficit, fq, cq, tx,
                       clock, faults, verdict, got, unchecked>>
    BY <1>3
  <2> HIDE DEF Step
  <2> QED BY <1>1, <1>8, <2>1, <2>2, <2>3 DEF Types
<1>5. Room(p)' /\ PortLedger(p)'
  <2> DEFINE b == bufs[p]
             s == Len(pendSend[p])
             t == Len(tx[p])
             c == cq[p]
             f == fq[p]
             r == Len(rx[p])
             d == Len(pendRecv[p])
             x == cqDeficit[p]
             y == fqDeficit[p]
  <2>1. /\ b \in Nat /\ s \in Nat /\ t \in Nat /\ c \in Nat /\ f \in Nat /\ r \in Nat /\ d \in Nat
        /\ x \in Nat /\ y \in Nat /\ b + s + t + c + f + r + d = BufNum /\ x = t + c
        /\ f + r + y = RingSize /\ s <= PendingLen /\ d <= PendingLen
        /\ t <= RingSize /\ r <= RingSize /\ c <= RingSize /\ f <= RingSize
    BY <1>1, <1>2, Counted
  <2>7. n \in Nat /\ n <= r /\ d = 0 /\ n <= PendingLen
    BY <1>1, <1>2, <1>3 DEF Numbers, PortLedger
  <2>2. /\ bufs'[p] = b /\ Len(pendSend'[p]) = s /\ Len(tx'[p]) = t
        /\ cq'[p] = c /\ fq'[p] = f /\ Len(rx'[p]) = r - n
        /\ Len(pendRecv'[p]) = d + n /\ cqDeficit'[p] = x /\ fqDeficit'[p] = y + n
        /\ pc'[p] = "receive"
    BY <1>1, <1>2, <1>3, <1>7, <1>8 DEF Types
  <2> HIDE DEF b, s, t, c, f, r, d, x, y
  <2>4. /\ b + s + t + c + f + (r - n) + (d + n) = BufNum
        /\ x = t + c /\ f + (r - n) + (y + n) = RingSize
        /\ s <= PendingLen /\ d + n <= PendingLen /\ t <= RingSize
        /\ r - n <= RingSize /\ c <= RingSize /\ f <= RingSize
    BY <2>1, <2>7, Constants
  <2>5. PortLedger(p)'
    BY <1>1, <1>3, <2>2, <2>4 DEF PortLedger, Types
  <2>6. Room(p)'
    BY <2>2, <2>4 DEF Room
  <2> QED BY <2>5, <2>6
<1>6. \A q \in Port \ {p} : Unmoved(q)
  BY <1>1, <1>3, <1>8 DEF Types, Unmoved
<1> QED BY <1>4, <1>5, <1>6, StepOf

LEMMA TestReceiveDeficits ==
  ASSUME BufferInv, NEW p \in Port, TestReceive(p) PROVE BufferInv'
<1> HIDE DEF Packet, PortState
<1>1. Types /\ Room(p) /\ PortLedger(p) /\ Numbers
  BY ByPort, InvNumbers
<1> DEFINE n == Len(pendRecv[p])
           end == Checked(p, portState[p], pendRecv[p])[n]
<1>2. /\ n \in Nat /\ pc[p] = "receive" /\ end \in PortState
      /\ end.transmitted = portState[p].transmitted
  <2>1. pendRecv[p] \in Seq(Packet) /\ portState[p] \in PortState /\ n \in 0 .. n
    BY <1>1 DEF Numbers
  <2>2. end \in PortState
    BY <2>1, LoopSteps, Zenon
  <2>3. end.transmitted = portState[p].transmitted
    BY <2>1, LoopKeeps, Zenon
  <2> QED BY <2>1, <2>2, <2>3 DEF TestReceive, At
<1>3. /\ pc' = [pc EXCEPT ![p] = "transmit"] /\ bufs' = [bufs EXCEPT ![p] = @ + n]
      /\ pendRecv' = [pendRecv EXCEPT ![p] = <<>>]
      /\ got' = [got EXCEPT ![p] = @ \o pendRecv[p]]
      /\ portState' = [portState EXCEPT ![p] = end]
      /\ UNCHANGED <<done, doneTime, now, pendSend, cqDeficit, fqDeficit,
                     fq, cq, tx, rx, clock, faults, verdict>>
  <2>1. Receive(p, pendRecv[p])
    BY DEF TestReceive
  <2>2. portState' = [portState EXCEPT ![p] = end] /\ UNCHANGED <<done, doneTime>>
    BY <1>1, <2>1, Zenon DEF Receive
  <2> HIDE DEF end
  <2> QED BY <2>2 DEF TestReceive, Goto, sockVars, worldVars, history
<1> HIDE DEF n, end
<1>4. Types'
  <2> DEFINE all == got[p] \o pendRecv[p]
  <2>1. bufs[p] + n \in Nat /\ all \in Seq(Packet) /\ <<>> \in Seq(Packet)
    <3>1. got[p] \in Seq(Packet) /\ pendRecv[p] \in Seq(Packet)
      BY <1>1 DEF Numbers, Types
    <3> QED BY <1>1, <1>2, <3>1, Joining DEF Numbers
  <2>2. got' = [got EXCEPT ![p] = all]
    BY <1>3
  <2>3. unchecked' \in [Port -> SUBSET Nat]
    <3> DEFINE lost == {i \in Len(got[p]) + 1 .. Len(got'[p]) : ~Known(Other(p), got'[p][i].seq)}
    <3>1. Len(got[p]) \in Nat /\ unchecked' = [unchecked EXCEPT ![p] = @ \cup lost]
      BY <1>1 DEF Types, TestReceive
    <3>2. lost \subseteq Nat
      BY <3>1
    <3> HIDE DEF lost
    <3> QED BY <1>1, <3>1, <3>2 DEF Types
  <2> HIDE DEF all
  <2> QED BY <1>1, <1>2, <1>3, <2>1, <2>2, <2>3 DEF Types, Step
<1>5. Room(p)' /\ PortLedger(p)'
  <2> DEFINE b == bufs[p]
             s == Len(pendSend[p])
             t == Len(tx[p])
             c == cq[p]
             f == fq[p]
             r == Len(rx[p])
             d == Len(pendRecv[p])
             x == cqDeficit[p]
             y == fqDeficit[p]
  <2>1. /\ b \in Nat /\ s \in Nat /\ t \in Nat /\ c \in Nat /\ f \in Nat /\ r \in Nat /\ d \in Nat
        /\ x \in Nat /\ y \in Nat /\ b + s + t + c + f + r + d = BufNum /\ x = t + c
        /\ f + r + y = RingSize /\ s <= PendingLen /\ d <= PendingLen
        /\ t <= RingSize /\ r <= RingSize /\ c <= RingSize /\ f <= RingSize
    BY <1>1, <1>2, Counted
  <2>7. n \in Nat /\ n = d
    BY <1>1, <1>2, <1>3 DEF Numbers, PortLedger, n
  <2>2. /\ bufs'[p] = b + n /\ Len(pendSend'[p]) = s /\ Len(tx'[p]) = t
        /\ cq'[p] = c /\ fq'[p] = f /\ Len(rx'[p]) = r
        /\ Len(pendRecv'[p]) = 0 /\ cqDeficit'[p] = x /\ fqDeficit'[p] = y
        /\ pc'[p] = "transmit"
    BY <1>1, <1>2, <1>3 DEF Types
  <2> HIDE DEF b, s, t, c, f, r, d, x, y
  <2>4. /\ (b + n) + s + t + c + f + r + 0 = BufNum
        /\ x = t + c /\ f + r + y = RingSize
        /\ s <= PendingLen /\ 0 <= PendingLen /\ t <= RingSize
        /\ r <= RingSize /\ c <= RingSize /\ f <= RingSize
    BY <2>1, <2>7, Constants
  <2>5. PortLedger(p)'
    BY <1>1, <1>2, <1>3, <2>2, <2>4 DEF PortLedger, Types
  <2>6. Room(p)'
    BY <2>2, <2>4 DEF Room
  <2> QED BY <2>5, <2>6
<1>6. \A q \in Port \ {p} : Unmoved(q)
  BY <1>1, <1>3 DEF Types, Unmoved
<1> QED BY <1>4, <1>5, <1>6, StepOf

LEMMA TestTransmitDeficits ==
  ASSUME BufferInv, NEW p \in Port, TestTransmit(p) PROVE BufferInv'
<1> HIDE DEF Packet, PortState
<1>1. Types /\ Room(p) /\ PortLedger(p) /\ Numbers
  BY ByPort, InvNumbers
<1> DEFINE room == Smaller(PendingLen - Len(pendSend[p]), bufs[p])
           n == Queued(p, now[p], room)
<1>2. /\ pc[p] = "transmit" /\ n \in Nat /\ n <= bufs[p]
      /\ Len(pendSend[p]) + n <= PendingLen /\ portState[p].transmitted + n <= Total
  <2>1. /\ PendingLen - Len(pendSend[p]) \in Nat /\ Len(pendSend[p]) \in Nat
        /\ bufs[p] \in Nat /\ portState[p].transmitted \in Nat
        /\ portState[p].transmitted <= Total /\ PendingLen \in Nat /\ Total \in Nat
    BY <1>1, StateFields, Constants DEF Numbers, PortLedger
  <2>2. room \in Nat /\ room <= bufs[p] /\ room <= PendingLen - Len(pendSend[p])
    BY <2>1, SmallerFacts
  <2> HIDE DEF room
  <2>3. n \in Nat /\ n <= room /\ n <= Total - portState[p].transmitted
    BY <2>1, <2>2, QueuedFacts
  <2> HIDE DEF n
  <2> QED BY <2>1, <2>2, <2>3 DEF TestTransmit, At
<1>3. /\ pc' = [pc EXCEPT ![p] = "send"] /\ bufs' = [bufs EXCEPT ![p] = @ - n]
      /\ pendSend' = [pendSend EXCEPT ![p] = @ \o NewPackets(p, n)]
      /\ Transmit(p, now[p], room)
      /\ UNCHANGED <<now, pendRecv, cqDeficit, fqDeficit,
                     fq, cq, tx, rx, clock, faults, verdict, got, unchecked>>
  BY DEF TestTransmit, Goto, sockVars, worldVars, history
<1>7. /\ portState' \in [Port -> PortState] /\ UNCHANGED <<done, doneTime>>
      /\ portState'[p].transmitted = portState[p].transmitted + n
      /\ \A q \in Port \ {p} : portState'[q] = portState[q]
  <2>1. portState \in [Port -> PortState] /\ now[p] \in Nat /\ room \in Nat
    <3>1. PendingLen - Len(pendSend[p]) \in Nat /\ bufs[p] \in Nat
      BY <1>1, Constants DEF Numbers
    <3>2. room \in Nat
      BY <3>1, SmallerFacts
    <3>3. now[p] \in Nat
      BY <1>1, Constants DEF Numbers
    <3> QED BY <1>1, <3>2, <3>3 DEF Types
  <2>2. portState[p].transmitted <= Total /\ Transmit(p, now[p], room)
    BY <1>1, <1>3 DEF PortLedger
  <2> HIDE DEF room
  <2> QED BY <2>1, <2>2, Transmitted
<1> HIDE DEF n, room
<1> DEFINE fresh == NewPackets(p, n)
           send == pendSend[p] \o fresh
<1>8. send \in Seq(Packet) /\ Len(send) = Len(pendSend[p]) + n
  <2>1. fresh \in Seq(Packet) /\ Len(fresh) = n
    BY <1>1, <1>2, FreshPackets DEF Numbers
  <2>2. pendSend[p] \in Seq(Packet)
    BY <1>1 DEF Numbers
  <2> HIDE DEF fresh
  <2> QED BY <2>1, <2>2, Joining
<1>9. pendSend' = [pendSend EXCEPT ![p] = send]
  BY <1>3
<1> HIDE DEF send, fresh
<1>4. Types'
  <2>1. bufs[p] - n \in Nat
    BY <1>1, <1>2 DEF Numbers
  <2> QED BY <1>1, <1>3, <1>7, <1>8, <1>9, <2>1 DEF Types, Step
<1>5. Room(p)' /\ PortLedger(p)'
  <2> DEFINE b == bufs[p]
             s == Len(pendSend[p])
             t == Len(tx[p])
             c == cq[p]
             f == fq[p]
             r == Len(rx[p])
             d == Len(pendRecv[p])
             x == cqDeficit[p]
             y == fqDeficit[p]
  <2>1. /\ b \in Nat /\ s \in Nat /\ t \in Nat /\ c \in Nat /\ f \in Nat /\ r \in Nat /\ d \in Nat
        /\ x \in Nat /\ y \in Nat /\ b + s + t + c + f + r + d = BufNum /\ x = t + c
        /\ f + r + y = RingSize /\ s <= PendingLen /\ d <= PendingLen
        /\ t <= RingSize /\ r <= RingSize /\ c <= RingSize /\ f <= RingSize
    BY <1>1, <1>2, Counted
  <2>7. n \in Nat /\ n <= b /\ s + n <= PendingLen
    BY <1>1, <1>2, <1>3 DEF Numbers, PortLedger
  <2>2. /\ bufs'[p] = b - n /\ Len(pendSend'[p]) = s + n /\ Len(tx'[p]) = t
        /\ cq'[p] = c /\ fq'[p] = f /\ Len(rx'[p]) = r
        /\ Len(pendRecv'[p]) = d /\ cqDeficit'[p] = x /\ fqDeficit'[p] = y
        /\ pc'[p] = "send"
    BY <1>1, <1>2, <1>3, <1>8, <1>9 DEF Types
  <2> HIDE DEF b, s, t, c, f, r, d, x, y
  <2>4. /\ (b - n) + (s + n) + t + c + f + r + d = BufNum
        /\ x = t + c /\ f + r + y = RingSize
        /\ s + n <= PendingLen /\ d <= PendingLen /\ t <= RingSize
        /\ r <= RingSize /\ c <= RingSize /\ f <= RingSize
    BY <2>1, <2>7, Constants
  <2>5. PortLedger(p)'
    BY <1>1, <1>2, <1>3, <1>7, <2>2, <2>4 DEF PortLedger, Types
  <2>6. Room(p)'
    BY <2>2, <2>4 DEF Room
  <2> QED BY <2>5, <2>6
<1>6. \A q \in Port \ {p} : Unmoved(q)
  BY <1>1, <1>3, <1>7, <1>9 DEF Types, Unmoved
<1> QED BY <1>4, <1>5, <1>6, StepOf

LEMMA TrySendDeficits ==
  ASSUME BufferInv, NEW p \in Port, TrySend(p) PROVE BufferInv'
<1> HIDE DEF Packet, PortState
<1>1. Types /\ Room(p) /\ PortLedger(p) /\ Numbers
  BY ByPort, InvNumbers
<1> DEFINE batch == Smaller(Len(pendSend[p]), SocketBatch)
           n == IF Len(tx[p]) + batch <= RingSize THEN batch ELSE 0
<1>2. /\ pc[p] = "send" /\ n \in 0 .. Len(pendSend[p]) /\ n \in Nat
      /\ n <= Len(pendSend[p]) /\ Len(tx[p]) + n <= RingSize
  <2>1. Len(pendSend[p]) \in Nat /\ Len(tx[p]) \in 0 .. RingSize /\ RingSize \in Nat
    BY <1>1, Constants DEF Numbers
  <2>2. batch \in Nat /\ batch <= Len(pendSend[p])
    BY <2>1, SmallerFacts, Constants
  <2> HIDE DEF batch
  <2>3. pc[p] = "send"
    BY DEF TrySend, At
  <2>4. CASE Len(tx[p]) + batch <= RingSize
    BY <2>1, <2>2, <2>3, <2>4
  <2>5. CASE ~(Len(tx[p]) + batch <= RingSize)
    BY <2>1, <2>3, <2>5
  <2> QED BY <2>4, <2>5
<1>3. /\ pc' = [pc EXCEPT ![p] = "refill"]
      /\ tx' = [tx EXCEPT ![p] = @ \o First(pendSend[p], n)]
      /\ pendSend' = [pendSend EXCEPT ![p] = Rest(@, n)]
      /\ cqDeficit' = [cqDeficit EXCEPT ![p] = @ + n]
      /\ UNCHANGED <<portState, done, doneTime, now, bufs, pendRecv, fqDeficit,
                     fq, cq, rx, clock, faults, verdict, got, unchecked>>
  BY DEF TrySend, Goto, testVars, worldVars, history
<1> HIDE DEF n
<1> DEFINE head == First(pendSend[p], n)
           tail == Rest(pendSend[p], n)
           sent == tx[p] \o head
<1>7. /\ tail \in Seq(Packet) /\ Len(tail) = Len(pendSend[p]) - n
      /\ sent \in Seq(Packet) /\ Len(sent) = Len(tx[p]) + n
  <2>1. tx[p] \in Seq(Packet) /\ pendSend[p] \in Seq(Packet)
    BY <1>1 DEF Numbers
  <2>2. /\ head \in Seq(Packet) /\ Len(head) = n
        /\ tail \in Seq(Packet) /\ Len(tail) = Len(pendSend[p]) - n
    BY <1>2, <2>1, Cut
  <2> HIDE DEF head, tail
  <2> QED BY <2>1, <2>2, Joining
<1>8. pendSend' = [pendSend EXCEPT ![p] = tail] /\ tx' = [tx EXCEPT ![p] = sent]
  BY <1>1, <1>3 DEF Types
<1> HIDE DEF sent, tail, head
<1>4. Types'
  <2>1. cqDeficit[p] + n \in Nat /\ "refill" \in Step
    BY <1>1, <1>2 DEF Numbers, Step
  <2>2. sent \in Seq(Packet) /\ tail \in Seq(Packet)
    BY <1>7
  <2>3. /\ pc' = [pc EXCEPT ![p] = "refill"] /\ cqDeficit' = [cqDeficit EXCEPT ![p] = @ + n]
        /\ UNCHANGED <<portState, done, doneTime, now, bufs, pendRecv,
                       fqDeficit, fq, cq, rx,
                       clock, faults, verdict, got, unchecked>>
    BY <1>3
  <2> HIDE DEF Step
  <2> QED BY <1>1, <1>8, <2>1, <2>2, <2>3 DEF Types
<1>5. Room(p)' /\ PortLedger(p)'
  <2> DEFINE b == bufs[p]
             s == Len(pendSend[p])
             t == Len(tx[p])
             c == cq[p]
             f == fq[p]
             r == Len(rx[p])
             d == Len(pendRecv[p])
             x == cqDeficit[p]
             y == fqDeficit[p]
  <2>1. /\ b \in Nat /\ s \in Nat /\ t \in Nat /\ c \in Nat /\ f \in Nat /\ r \in Nat /\ d \in Nat
        /\ x \in Nat /\ y \in Nat /\ b + s + t + c + f + r + d = BufNum /\ x = t + c
        /\ f + r + y = RingSize /\ s <= PendingLen /\ d <= PendingLen
        /\ t <= RingSize /\ r <= RingSize /\ c <= RingSize /\ f <= RingSize
    BY <1>1, <1>2, Counted
  <2>7. n \in Nat /\ n <= s /\ t + n <= RingSize
    BY <1>1, <1>2, <1>3 DEF Numbers, PortLedger
  <2>2. /\ bufs'[p] = b /\ Len(pendSend'[p]) = s - n /\ Len(tx'[p]) = t + n
        /\ cq'[p] = c /\ fq'[p] = f /\ Len(rx'[p]) = r
        /\ Len(pendRecv'[p]) = d /\ cqDeficit'[p] = x + n /\ fqDeficit'[p] = y
        /\ pc'[p] = "refill"
    BY <1>1, <1>2, <1>3, <1>7, <1>8 DEF Types
  <2> HIDE DEF b, s, t, c, f, r, d, x, y
  <2>4. /\ b + (s - n) + (t + n) + c + f + r + d = BufNum
        /\ x + n = (t + n) + c /\ f + r + y = RingSize
        /\ s - n <= PendingLen /\ d <= PendingLen /\ t + n <= RingSize
        /\ r <= RingSize /\ c <= RingSize /\ f <= RingSize
    BY <2>1, <2>7, Constants
  <2>5. PortLedger(p)'
    BY <1>1, <1>2, <1>3, <2>2, <2>4 DEF PortLedger, Types
  <2>6. Room(p)'
    BY <2>2, <2>4 DEF Room
  <2> QED BY <2>5, <2>6
<1>6. \A q \in Port \ {p} : Unmoved(q)
  BY <1>1, <1>3, <1>8 DEF Types, Unmoved
<1> QED BY <1>4, <1>5, <1>6, StepOf

LEMMA RefillDeficits ==
  ASSUME BufferInv, NEW p \in Port, Refill(p) PROVE BufferInv'
<1> HIDE DEF Packet, PortState
<1>1. Types /\ Room(p) /\ PortLedger(p) /\ Numbers
  BY ByPort, InvNumbers
<1> DEFINE batch == Smaller(FillBatch, fqDeficit[p])
           n == IF fqDeficit[p] >= FillThreshold THEN Filled(p, batch) ELSE 0
<1>2. /\ pc[p] = "refill" /\ n \in Nat /\ n <= bufs[p] /\ n <= fqDeficit[p]
      /\ fq[p] + n <= RingSize
  <2>1. /\ bufs[p] \in Nat /\ fqDeficit[p] \in Nat /\ fq[p] \in 0 .. RingSize
        /\ RingSize \in Nat
    BY <1>1, Constants DEF Numbers
  <2>2. batch \in Nat /\ batch <= fqDeficit[p]
    BY <2>1, SmallerFacts, Constants
  <2> HIDE DEF batch
  <2>3. /\ Filled(p, batch) \in Nat /\ Filled(p, batch) <= bufs[p]
        /\ Filled(p, batch) <= batch /\ fq[p] + Filled(p, batch) <= RingSize
    BY <2>2, FilledFacts
  <2> QED BY <2>1, <2>2, <2>3 DEF Refill, At
<1>3. /\ pc' = [pc EXCEPT ![p] = "time"]
      /\ bufs' = [bufs EXCEPT ![p] = @ - n] /\ fq' = [fq EXCEPT ![p] = @ + n]
      /\ fqDeficit' = [fqDeficit EXCEPT ![p] = @ - n]
      /\ UNCHANGED <<portState, done, doneTime, now, pendSend, pendRecv, cqDeficit,
                     cq, tx, rx, clock, faults, verdict, got, unchecked>>
  BY <1>1, Constants DEF Refill, Fill, Goto, Numbers, Types, testVars, worldVars, history
<1> HIDE DEF n
<1>4. Types'
  <2>1. bufs[p] - n \in Nat /\ fq[p] + n \in Nat /\ fqDeficit[p] - n \in Nat
    BY <1>1, <1>2 DEF Numbers
  <2> QED BY <1>1, <1>3, <2>1 DEF Types, Step
<1>5. Room(p)' /\ PortLedger(p)'
  <2> DEFINE b == bufs[p]
             s == Len(pendSend[p])
             t == Len(tx[p])
             c == cq[p]
             f == fq[p]
             r == Len(rx[p])
             d == Len(pendRecv[p])
             x == cqDeficit[p]
             y == fqDeficit[p]
  <2>1. /\ b \in Nat /\ s \in Nat /\ t \in Nat /\ c \in Nat /\ f \in Nat /\ r \in Nat /\ d \in Nat
        /\ x \in Nat /\ y \in Nat /\ b + s + t + c + f + r + d = BufNum /\ x = t + c
        /\ f + r + y = RingSize /\ s <= PendingLen /\ d <= PendingLen
        /\ t <= RingSize /\ r <= RingSize /\ c <= RingSize /\ f <= RingSize
    BY <1>1, <1>2, Counted
  <2>7. n \in Nat /\ n <= b /\ n <= y /\ f + n <= RingSize
    BY <1>2
  <2>2. /\ bufs'[p] = b - n /\ Len(pendSend'[p]) = s /\ Len(tx'[p]) = t
        /\ cq'[p] = c /\ fq'[p] = f + n /\ Len(rx'[p]) = r
        /\ Len(pendRecv'[p]) = d /\ cqDeficit'[p] = x /\ fqDeficit'[p] = y - n
        /\ pc'[p] = "time"
    BY <1>1, <1>2, <1>3 DEF Types
  <2> HIDE DEF b, s, t, c, f, r, d, x, y
  <2>4. /\ (b - n) + s + t + c + (f + n) + r + d = BufNum
        /\ x = t + c /\ (f + n) + r + (y - n) = RingSize
        /\ s <= PendingLen /\ d <= PendingLen /\ t <= RingSize
        /\ r <= RingSize /\ c <= RingSize /\ f + n <= RingSize
    BY <2>1, <2>7, Constants
  <2>5. PortLedger(p)'
    BY <1>1, <1>2, <1>3, <2>2, <2>4 DEF PortLedger, Types
  <2>6. Room(p)'
    BY <2>2, <2>4 DEF Room
  <2> QED BY <2>5, <2>6
<1>6. \A q \in Port \ {p} : Unmoved(q)
  BY <1>1, <1>3 DEF Types, Unmoved
<1> QED BY <1>4, <1>5, <1>6, StepOf

Copies(pkt, n) == [k \in 1 .. n |-> pkt]

\* How many of the copies that are under way port q takes.
Landing(q, copies) ==
  IF Open(q) THEN Smaller(copies, Smaller(fq[q], RingSize - Len(rx[q]))) ELSE 0

\* A frame crosses: the sender has its buffer in the completion ring, and the
\* receiver one buffer less in the fill ring for each copy that arrived.
LEMMA Crossing ==
  ASSUME BufferInv, NEW p \in Port, NEW i, NEW pkt \in Packet, NEW copies \in Nat,
         Cross(p, i, pkt, copies)
  PROVE  /\ i \in DOMAIN tx[p] /\ pc[p] # "exited" /\ cq[p] + 1 <= RingSize
         /\ tx' = [tx EXCEPT ![p] = RemoveAt(tx[p], i)]
         /\ cq' = [cq EXCEPT ![p] = cq[p] + 1]
         /\ Landing(Other(p), copies) \in 0 .. copies
         /\ Landing(Other(p), copies) <= fq[Other(p)]
         /\ Len(rx[Other(p)]) + Landing(Other(p), copies) <= RingSize
         /\ rx' = [rx EXCEPT ![Other(p)] = @ \o Copies(pkt, Landing(Other(p), copies))]
         /\ fq' = [fq EXCEPT ![Other(p)] = @ - Landing(Other(p), copies)]
         /\ UNCHANGED <<portState, done, doneTime, pc, now, bufs, pendSend, pendRecv,
                        cqDeficit, fqDeficit, clock, verdict, got, unchecked>>
<1> HIDE DEF Packet, PortState
<1>1. Types /\ Numbers /\ Other(p) \in Port
  BY ByPort, InvNumbers, Ports
<1>2. cq[p] + 1 <= RingSize
  <2>1. cq[p] < RingSize
    BY DEF Cross
  <2>2. cq[p] \in Nat /\ RingSize \in Nat
    BY <1>1, Constants DEF Numbers
  <2> QED BY <2>1, <2>2
<1>3. pc[p] # "exited"
  BY DEF Cross, Open, At
<1>4. /\ i \in DOMAIN tx[p]
      /\ tx' = [tx EXCEPT ![p] = RemoveAt(tx[p], i)]
      /\ cq' = [cq EXCEPT ![p] = cq[p] + 1]
      /\ Arrive(Other(p), pkt, copies)
      /\ UNCHANGED <<portState, done, doneTime, pc, now, bufs, pendSend, pendRecv,
                     cqDeficit, fqDeficit, clock, verdict, got, unchecked>>
  BY DEF Cross, testVars, threadVars, history
<1> DEFINE q == Other(p)
           n == Landing(q, copies)
<1>5. /\ rx' = [rx EXCEPT ![q] = @ \o Copies(pkt, n)]
      /\ fq' = [fq EXCEPT ![q] = @ - n]
  BY <1>4 DEF Arrive, Landing, Copies
<1>6. n \in 0 .. copies /\ n <= fq[q] /\ Len(rx[q]) + n <= RingSize
  <2>1. /\ fq[q] \in Nat /\ Len(rx[q]) \in Nat /\ RingSize - Len(rx[q]) \in Nat
        /\ RingSize \in Nat
    BY <1>1, Constants DEF Numbers
  <2>2. CASE Open(q)
    <3> DEFINE m == Smaller(fq[q], RingSize - Len(rx[q]))
    <3>1. m \in Nat /\ m <= fq[q] /\ m <= RingSize - Len(rx[q])
      BY <2>1, SmallerFacts
    <3> HIDE DEF m
    <3>2. Smaller(copies, m) \in Nat /\ Smaller(copies, m) <= copies /\ Smaller(copies, m) <= m
      BY <3>1, SmallerFacts
    <3>3. n = Smaller(copies, m)
      BY <2>2 DEF m, Landing
    <3> QED BY <2>1, <3>1, <3>2, <3>3
  <2>3. CASE ~Open(q)
    BY <1>1, <2>1, <2>3, Constants DEF Numbers, Landing
  <2> QED BY <2>2, <2>3
<1> QED BY <1>2, <1>3, <1>4, <1>5, <1>6

LEMMA Copied ==
  ASSUME NEW pkt \in Packet, NEW n \in Nat
  PROVE  /\ Copies(pkt, n) \in Seq(Packet) /\ Len(Copies(pkt, n)) = n
         /\ \A k \in 1 .. n : Copies(pkt, n)[k] = pkt
<1> HIDE DEF Packet
<1> QED BY DEF Copies

LEMMA CrossDeficits ==
  ASSUME BufferInv, NEW p \in Port, NEW i, NEW pkt \in Packet, NEW copies \in Nat,
         Cross(p, i, pkt, copies), faults' \in 0 .. MaxFaults
  PROVE  BufferInv'
<1> HIDE DEF Packet, PortState
<1> DEFINE q == Other(p)
<1>1. /\ Types /\ Numbers /\ q \in Port /\ q # p /\ Room(p) /\ Room(q)
      /\ PortLedger(p) /\ PortLedger(q) /\ \A o \in Port : o = p \/ o = q
  BY ByPort, InvNumbers, Ports
<1>2. /\ i \in DOMAIN tx[p] /\ cq[p] + 1 <= RingSize
      /\ tx' = [tx EXCEPT ![p] = RemoveAt(tx[p], i)]
      /\ cq' = [cq EXCEPT ![p] = cq[p] + 1]
      /\ UNCHANGED <<portState, done, doneTime, pc, now, bufs, pendSend, pendRecv,
                     cqDeficit, fqDeficit, clock, verdict, got, unchecked>>
  BY Crossing
<1> DEFINE n == Landing(q, copies)
<1>3. /\ n \in 0 .. copies /\ n <= fq[q] /\ Len(rx[q]) + n <= RingSize
      /\ rx' = [rx EXCEPT ![q] = @ \o Copies(pkt, n)]
      /\ fq' = [fq EXCEPT ![q] = @ - n]
  <2>1. n \in 0 .. copies /\ n <= fq[q] /\ Len(rx[q]) + n <= RingSize
    BY Crossing, Zenon
  <2>2. rx' = [rx EXCEPT ![q] = @ \o Copies(pkt, n)]
    BY Crossing, Zenon
  <2>3. fq' = [fq EXCEPT ![q] = @ - n]
    BY Crossing, Zenon
  <2> QED BY <2>1, <2>2, <2>3
<1>10. n \in Nat
  BY <1>3
<1> HIDE DEF n
<1> DEFINE left == RemoveAt(tx[p], i)
           came == Copies(pkt, n)
           all == rx[q] \o came
<1>4. /\ left \in Seq(Packet) /\ Len(left) = Len(tx[p]) - 1
      /\ all \in Seq(Packet) /\ Len(all) = Len(rx[q]) + n
  <2>1. tx[p] \in Seq(Packet) /\ rx[q] \in Seq(Packet)
    BY <1>1 DEF Numbers
  <2>2. left \in Seq(Packet) /\ Len(left) = Len(tx[p]) - 1
    BY <1>2, <2>1, Taking
  <2>3. came \in Seq(Packet) /\ Len(came) = n
    BY <1>10, Copied
  <2> HIDE DEF left, came
  <2> QED BY <2>1, <2>2, <2>3, Joining
<1>5. tx' = [tx EXCEPT ![p] = left] /\ rx' = [rx EXCEPT ![q] = all]
  BY <1>2, <1>3
<1> HIDE DEF left, came, all
<1>6. Types'
  <2>1. cq[p] + 1 \in Nat /\ fq[q] - n \in Nat
    BY <1>1, <1>3 DEF Numbers
  <2>2. left \in Seq(Packet) /\ all \in Seq(Packet)
    BY <1>4
  <2>3. fq' = [fq EXCEPT ![q] = fq[q] - n]
    BY <1>3
  <2> HIDE DEF q
  <2> QED BY <1>1, <1>2, <1>5, <2>1, <2>2, <2>3 DEF Types
<1>7. Room(p)' /\ PortLedger(p)'
  <2> DEFINE b == bufs[p]
             s == Len(pendSend[p])
             t == Len(tx[p])
             c == cq[p]
             f == fq[p]
             r == Len(rx[p])
             d == Len(pendRecv[p])
  <2>1. /\ b \in Nat /\ s \in Nat /\ t \in Nat /\ c \in Nat /\ f \in Nat /\ r \in Nat /\ d \in Nat
        /\ b + s + t + c + f + r + d = BufNum /\ cqDeficit[p] = t + c
        /\ t <= RingSize /\ c + 1 <= RingSize
    <3>1. /\ b \in Nat /\ s \in Nat /\ t \in Nat /\ c \in Nat /\ f \in Nat
          /\ r \in Nat /\ d \in Nat
      BY <1>1 DEF Numbers
    <3>2. b + s + t + c + f + r + d = BufNum /\ cqDeficit[p] = t + c
      BY <1>1 DEF PortLedger
    <3>3. t <= RingSize /\ c + 1 <= RingSize
      BY <1>1, <1>2 DEF Room
    <3> QED BY <3>1, <3>2, <3>3
  <2>2. /\ Len(tx'[p]) = t - 1 /\ cq'[p] = c + 1
        /\ bufs'[p] = b /\ Len(pendSend'[p]) = s /\ fq'[p] = f
        /\ Len(rx'[p]) = r /\ Len(pendRecv'[p]) = d /\ cqDeficit'[p] = cqDeficit[p]
    <3>1. /\ tx'[p] = left /\ cq'[p] = c + 1 /\ rx'[p] = rx[p] /\ fq'[p] = fq[p]
      BY <1>1, <1>2, <1>3, <1>5 DEF Types
    <3> QED BY <1>2, <1>4, <3>1
  <2> HIDE DEF b, s, t, c, f, r, d, q
  <2>3. b + s + (t - 1) + (c + 1) + f + r + d = BufNum /\ cqDeficit[p] = (t - 1) + (c + 1)
        /\ t - 1 <= RingSize /\ c + 1 <= RingSize
    BY <2>1, Constants
  <2>4. Room(p)'
    BY <1>1, <1>2, <2>2, <2>3 DEF Room, s, f, r, d
  <2>5. PortLedger(p)'
    BY <1>1, <1>2, <2>2, <2>3 DEF PortLedger, f, r
  <2> QED BY <2>4, <2>5
<1>8. Room(q)' /\ PortLedger(q)'
  <2> DEFINE b == bufs[q]
             s == Len(pendSend[q])
             t == Len(tx[q])
             c == cq[q]
             f == fq[q]
             r == Len(rx[q])
             d == Len(pendRecv[q])
             y == fqDeficit[q]
  <2>1. /\ b \in Nat /\ s \in Nat /\ t \in Nat /\ c \in Nat /\ f \in Nat /\ r \in Nat /\ d \in Nat
        /\ b + s + t + c + f + r + d = BufNum /\ f <= RingSize /\ y \in Nat
        /\ n \in Nat /\ n <= f /\ r + n <= RingSize
    <3>1. /\ b \in Nat /\ s \in Nat /\ t \in Nat /\ c \in Nat /\ f \in Nat
          /\ r \in Nat /\ d \in Nat /\ y \in Nat
      BY <1>1 DEF Numbers
    <3>2. b + s + t + c + f + r + d = BufNum
      BY <1>1 DEF PortLedger
    <3>3. f <= RingSize
      BY <1>1 DEF Room
    <3>4. n \in Nat /\ n <= f /\ r + n <= RingSize
      BY <1>3
    <3> QED BY <3>1, <3>2, <3>3, <3>4
  <2>2. /\ Len(rx'[q]) = r + n /\ fq'[q] = f - n
        /\ bufs'[q] = b /\ Len(pendSend'[q]) = s /\ Len(tx'[q]) = t /\ cq'[q] = c
        /\ Len(pendRecv'[q]) = d /\ cqDeficit'[q] = cqDeficit[q] /\ fqDeficit'[q] = y
    <3>1. /\ rx'[q] = all /\ fq'[q] = fq[q] - n /\ tx'[q] = tx[q] /\ cq'[q] = cq[q]
      BY <1>1, <1>2, <1>3, <1>5 DEF Types
    <3> QED BY <1>2, <1>4, <3>1
  <2>6. pc[q] # "fill" => f + r + y = RingSize
    BY <1>1 DEF PortLedger
  <2> HIDE DEF b, s, t, c, f, r, d, y, q
  <2>3. /\ b + s + t + c + (f - n) + (r + n) + d = BufNum
        /\ r + n <= RingSize /\ f - n <= RingSize
        /\ pc[q] # "fill" => (f - n) + (r + n) + y = RingSize
    BY <2>1, <2>6, Constants
  <2>4. Room(q)'
    BY <1>1, <1>2, <2>2, <2>3 DEF Room, s, t, c, d
  <2>5. PortLedger(q)'
    BY <1>1, <1>2, <2>2, <2>3 DEF PortLedger, b, t, c, y
  <2> QED BY <2>4, <2>5
<1> QED BY <1>1, <1>6, <1>7, <1>8, ByPortNext

\* The veth only ever moves a frame that is in a TX ring, damaged perhaps.
LEMMA VethCrosses ==
  ASSUME BufferInv, NEW p \in Port, Carry(p) \/ Misbehave(p)
  PROVE  \E i \in 1 .. 2, pkt \in Packet, copies \in 0 .. 2 :
           /\ Cross(p, i, pkt, copies) /\ faults' \in 0 .. MaxFaults
           /\ i \in DOMAIN tx[p] /\ (pkt.intact => pkt = tx[p][i])
           /\ faults' = 0 => faults = 0 /\ i = 1 /\ copies = 1 /\ pkt = tx[p][1]
<1>1. tx[p] \in Seq(Packet) /\ tx[p] # <<>> /\ faults \in 0 .. MaxFaults
  BY ByPort, InvNumbers DEF Carry, Misbehave, Numbers, Types
<1>2. 1 \in DOMAIN tx[p] /\ Head(tx[p]) = tx[p][1] /\ tx[p][1] \in Packet
  BY <1>1
<1>3. CASE Carry(p)
  <2>1. Cross(p, 1, tx[p][1], 1) /\ faults' = faults
    BY <1>2, <1>3, Zenon DEF Carry
  <2> QED BY <1>1, <1>2, <2>1
<1>4. CASE Misbehave(p)
  <2>1. faults' = faults + 1 /\ faults' \in 0 .. MaxFaults /\ faults' # 0
    <3>1. faults' = faults + 1 /\ faults < MaxFaults
      BY <1>4 DEF Misbehave
    <3> QED BY <1>1, <3>1, Constants
  <2>2. CASE Cross(p, 1, Head(tx[p]), 0)
    BY <1>2, <2>1, <2>2
  <2>3. CASE Cross(p, 1, Head(tx[p]), 2)
    BY <1>2, <2>1, <2>3
  <2>4. CASE Len(tx[p]) > 1 /\ Cross(p, 2, tx[p][2], 1)
    <3>1. 2 \in DOMAIN tx[p] /\ tx[p][2] \in Packet
      BY <1>1, <2>4
    <3> QED BY <2>1, <2>4, <3>1
  <2>5. CASE \E bad \in Damaged(Head(tx[p])) : Cross(p, 1, bad, 1)
    <3>1. PICK bad \in Damaged(Head(tx[p])) : Cross(p, 1, bad, 1)
      BY <2>5
    <3>2. bad \in Packet /\ ~bad.intact
      <4>1. DamagedSeqs \subseteq Nat /\ Head(tx[p]).seq \in Nat
        BY <1>2, TrafficAssumption DEF Packet
      <4> QED BY <3>1, <4>1 DEF Damaged, Packet
    <3> QED BY <1>2, <2>1, <3>1, <3>2
  <2> QED BY <1>4, <2>2, <2>3, <2>4, <2>5, Zenon DEF Misbehave
<1> QED BY <1>3, <1>4

LEMMA QuietDeficits ==
  ASSUME BufferInv, Tick \/ Finalize \/ UNCHANGED vars PROVE BufferInv'
<1> HIDE DEF Packet, PortState, Passed
<1>1. Types /\ \A p \in Port : Room(p) /\ PortLedger(p)
  BY ByPort
<1>2. /\ UNCHANGED <<portState, done, doneTime, pc, now, bufs, pendSend, pendRecv, fq, cq,
                     tx, rx, cqDeficit, fqDeficit, faults, got, unchecked>>
      /\ clock' \in 0 .. MaxTime /\ verdict' \in {"none", "passed", "failed"}
  <2>1. CASE Tick
    BY <1>1, <2>1, Constants
       DEF Tick, Types, testVars, threadVars, sockVars, history
  <2>2. CASE Finalize
    BY <1>1, <2>2 DEF Finalize, Types, testVars, threadVars, sockVars, history
  <2>3. CASE UNCHANGED vars
    BY <1>1, <2>3 DEF vars, Types, testVars, threadVars, sockVars, worldVars, history
  <2> QED BY <2>1, <2>2, <2>3
<1>3. Types'
  BY <1>1, <1>2 DEF Types
<1>4. \A p \in Port : Room(p)' /\ PortLedger(p)'
  BY <1>1, <1>2 DEF Room, PortLedger
<1> QED BY <1>3, <1>4, ByPortNext

LEMMA BuffersNext == BufferInv /\ [Next]_vars => BufferInv'
<1> SUFFICES ASSUME BufferInv, [Next]_vars PROVE BufferInv'
  OBVIOUS
<1>1. ASSUME NEW p \in Port, Thread(p) PROVE BufferInv'
  BY <1>1, InitialFillDeficits, ReadTimeDeficits, CheckDoneDeficits, ServiceDeficits,
     TryRecvDeficits, TestReceiveDeficits, TestTransmitDeficits, TrySendDeficits,
     RefillDeficits, Zenon DEF Thread
<1>2. ASSUME NEW p \in Port, Carry(p) \/ Misbehave(p) PROVE BufferInv'
  <2>1. PICK i \in 1 .. 2, pkt \in Packet, copies \in 0 .. 2 :
               Cross(p, i, pkt, copies) /\ faults' \in 0 .. MaxFaults
    BY <1>2, VethCrosses
  <2>2. copies \in Nat
    OBVIOUS
  <2> QED BY <2>1, <2>2, CrossDeficits
<1>3. CASE Tick \/ Finalize \/ UNCHANGED vars
  BY <1>3, QuietDeficits
<1> QED BY <1>1, <1>2, <1>3, Zenon DEF Next

\* In the traffic test every buffer of a thread is in one place, and each
\* deficit is exactly what its ring lacks, so neither is ever taken below zero.
THEOREM TestBuffersInvariant == Spec => []BufferInv
BY BuffersStart, BuffersNext, PTL DEF Spec

\* The rings and deques of the traffic test stay within their sizes.
THEOREM TrafficTypeCorrect == Spec => []TrafficTypeOK
<1>1. BufferInv => TrafficTypeOK
  BY DEF BufferInv
<1> QED BY <1>1, TestBuffersInvariant, PTL

\* cq_deficit and fq_deficit of tests/common.rs are what the rings lack.
THEOREM DeficitsAreTrue == Spec => []DeficitsTrue
<1>1. BufferInv => DeficitsTrue
  BY DEF BufferInv
<1> QED BY <1>1, TestBuffersInvariant, PTL

\* A thread whose frames have all been sent has the buffers of a burst.
THEOREM NeverStarved == Spec => []CanGoOn
<1>1. BufferInv => CanGoOn
  <2> HIDE DEF Packet, PortState
  <2> SUFFICES ASSUME BufferInv, NEW p \in Port, pc[p] = "transmit", pendSend[p] = <<>>,
                      tx[p] = <<>>, cqDeficit[p] < ServiceThreshold
               PROVE  PacketCount(p, Smaller(PendingLen, bufs[p])) > 0 \/ Unsent(p) = 0
    BY DEF CanGoOn, At
  <2>1. Numbers /\ PortLedger(p)
    BY ByPort, InvNumbers
  <2>2. bufs[p] \in Nat /\ bufs[p] >= BurstSize
    <3> DEFINE b == bufs[p]
               c == cq[p]
               f == fq[p]
               r == Len(rx[p])
               y == fqDeficit[p]
    <3>1. /\ b \in Nat /\ c \in Nat /\ f \in Nat /\ r \in Nat /\ y \in Nat
          /\ b + 0 + 0 + c + f + r + 0 = BufNum /\ c < ServiceThreshold
          /\ f + r + y = RingSize
      <4>1. /\ pendRecv[p] = <<>> /\ Len(pendSend[p]) = 0 /\ Len(tx[p]) = 0
            /\ Len(pendRecv[p]) = 0
        BY <2>1 DEF PortLedger
      <4>2. /\ bufs[p] + 0 + 0 + cq[p] + fq[p] + Len(rx[p]) + 0 = BufNum
            /\ cqDeficit[p] = 0 + cq[p] /\ fq[p] + Len(rx[p]) + fqDeficit[p] = RingSize
        BY <2>1, <4>1 DEF PortLedger
      <4> QED BY <2>1, <4>2 DEF Numbers
    <3> HIDE DEF b, c, f, r, y
    <3>2. b >= BurstSize
      BY <3>1, Constants
    <3> QED BY <3>1, <3>2 DEF b
  <2> DEFINE room == Smaller(PendingLen, bufs[p])
  <2>3. room \in Nat /\ room >= BurstSize
    BY <2>2, Constants, SmallerFacts
  <2>4. Unsent(p) \in Nat
    BY <2>1, StateFields, Constants DEF Unsent, Numbers, PortLedger
  <2> HIDE DEF room
  <2>5. CASE Unsent(p) >= BurstSize
    <3>1. PacketCount(p, room) = BurstSize
      BY <2>3, <2>5, Constants DEF PacketCount, Burst
    <3> QED BY <3>1, Constants DEF room
  <2>6. CASE ~(Unsent(p) >= BurstSize)
    <3>1. PacketCount(p, room) = Smaller(room, Unsent(p))
      BY <2>6 DEF PacketCount
    <3>2. Smaller(room, Unsent(p)) = room \/ Smaller(room, Unsent(p)) = Unsent(p)
      BY DEF Smaller
    <3>3. room > 0
      BY <2>3, Constants
    <3> QED BY <2>4, <3>1, <3>2, <3>3 DEF room
  <2> QED BY <2>5, <2>6 DEF room
<1> QED BY <1>1, TestBuffersInvariant, PTL

-----------------------------------------------------------------------------
(* Packets on the way.                                                     *)

LEMMA Regrouping ==
  ASSUME NEW s1 \in Seq(Packet), NEW s2 \in Seq(Packet), NEW s3 \in Seq(Packet)
  PROVE  (s1 \o s2) \o s3 = s1 \o (s2 \o s3)
BY ConcatAssociative

LEMMA CutJoined ==
  ASSUME NEW s \in Seq(Packet), NEW n \in 0 .. Len(s)
  PROVE  First(s, n) \o Rest(s, n) = s
<1> HIDE DEF Packet
<1>1. Len(s) \in Nat
  BY LenProperties
<1>2. 1 \in 1 .. Len(s) + 1 /\ n \in 1 - 1 .. Len(s) /\ Len(s) \in n .. Len(s)
  BY <1>1
<1>3. SubSeq(s, 1, n) \o SubSeq(s, n + 1, Len(s)) = SubSeq(s, 1, Len(s))
  BY <1>2, ConcatAdjacentSubSeq
<1>4. SubSeq(s, 1, Len(s)) = s
  BY SubSeqFull
<1> QED BY <1>3, <1>4 DEF First, Rest

LEMMA JoinedAt ==
  ASSUME NEW s \in Seq(Packet), NEW t \in Seq(Packet)
  PROVE  /\ s \o t \in Seq(Packet) /\ DOMAIN (s \o t) = 1 .. Len(s) + Len(t)
         /\ \A i \in 1 .. Len(s) + Len(t) :
              (s \o t)[i] = IF i <= Len(s) THEN s[i] ELSE t[i - Len(s)]
<1> HIDE DEF Packet
<1>1. /\ s \o t \in Seq(Packet) /\ Len(s \o t) = Len(s) + Len(t)
      /\ \A i \in 1 .. Len(s) + Len(t) :
           (s \o t)[i] = IF i <= Len(s) THEN s[i] ELSE t[i - Len(s)]
  BY ConcatProperties
<1>2. DOMAIN (s \o t) = 1 .. Len(s \o t)
  BY <1>1
<1> QED BY <1>1, <1>2

\* The numbers of undamaged packets were given out, m being the last one.
Given(pkt, m) == pkt.intact => pkt.seq \in 2 .. m
Among(s, m) == \A i \in DOMAIN s : Given(s[i], m)

\* The packets are undamaged, in order and newer than the last one received.
Orderly(s, last) ==
  Rising(s) /\ \A i \in DOMAIN s : s[i].intact /\ last < s[i].seq

LEMMA PacketAt ==
  ASSUME NEW s \in Seq(Packet)
  PROVE  /\ DOMAIN s = 1 .. Len(s) /\ Len(s) \in Nat
         /\ \A i \in 1 .. Len(s) : s[i].seq \in Nat
<1>1. DOMAIN s = 1 .. Len(s) /\ Len(s) \in Nat /\ \A i \in 1 .. Len(s) : s[i] \in Packet
  <2> HIDE DEF Packet
  <2> QED OBVIOUS
<1>2. \A x \in Packet : x.seq \in Nat
  BY DEF Packet
<1> QED BY <1>1, <1>2

LEMMA AmongJoin ==
  ASSUME NEW s \in Seq(Packet), NEW t \in Seq(Packet), NEW m
  PROVE  Among(s \o t, m) <=> Among(s, m) /\ Among(t, m)
<1> DEFINE u == s \o t
<1>1. /\ DOMAIN u = 1 .. Len(s) + Len(t) /\ DOMAIN s = 1 .. Len(s) /\ DOMAIN t = 1 .. Len(t)
      /\ Len(s) \in Nat /\ Len(t) \in Nat
      /\ \A i \in 1 .. Len(s) + Len(t) : u[i] = IF i <= Len(s) THEN s[i] ELSE t[i - Len(s)]
  BY JoinedAt, PacketAt, Zenon
<1> HIDE DEF u
<1>2. ASSUME Among(u, m) PROVE Among(s, m) /\ Among(t, m)
  <2>1. ASSUME NEW i \in 1 .. Len(s) PROVE Given(s[i], m)
    <3>1. i \in 1 .. Len(s) + Len(t) /\ u[i] = s[i]
      BY <1>1
    <3> QED BY <1>1, <1>2, <3>1, Zenon DEF Among
  <2>2. ASSUME NEW i \in 1 .. Len(t) PROVE Given(t[i], m)
    <3>1. Len(s) + i \in 1 .. Len(s) + Len(t) /\ u[Len(s) + i] = t[i]
      BY <1>1
    <3> QED BY <1>1, <1>2, <3>1, Zenon DEF Among
  <2> QED BY <1>1, <2>1, <2>2 DEF Among
<1>3. ASSUME Among(s, m), Among(t, m) PROVE Among(u, m)
  <2>1. ASSUME NEW i \in 1 .. Len(s) + Len(t) PROVE Given(u[i], m)
    <3>1. CASE i <= Len(s)
      BY <1>1, <1>3, <3>1 DEF Among
    <3>2. CASE ~(i <= Len(s))
      <4>1. i - Len(s) \in 1 .. Len(t) /\ u[i] = t[i - Len(s)]
        BY <1>1, <3>2
      <4> QED BY <1>1, <1>3, <4>1 DEF Among
    <3> QED BY <3>1, <3>2
  <2> QED BY <1>1, <2>1 DEF Among
<1> QED BY <1>2, <1>3 DEF u

LEMMA AmongGrows ==
  ASSUME NEW s, NEW m \in Nat, NEW n \in Nat, m <= n, Among(s, m)
  PROVE  Among(s, n)
BY DEF Among, Given

LEMMA RisingJoin ==
  ASSUME NEW s \in Seq(Packet), NEW t \in Seq(Packet)
  PROVE  Rising(s \o t) <=>
           /\ Rising(s) /\ Rising(t)
           /\ \A i \in DOMAIN s, j \in DOMAIN t : s[i].seq < t[j].seq
<1> DEFINE u == s \o t
<1>1. /\ DOMAIN u = 1 .. Len(s) + Len(t) /\ DOMAIN s = 1 .. Len(s) /\ DOMAIN t = 1 .. Len(t)
      /\ Len(s) \in Nat /\ Len(t) \in Nat
      /\ \A i \in 1 .. Len(s) + Len(t) : u[i] = IF i <= Len(s) THEN s[i] ELSE t[i - Len(s)]
  BY JoinedAt, PacketAt, Zenon
<1> HIDE DEF u
<1>2. /\ \A i \in 1 .. Len(s) : i \in DOMAIN u /\ u[i] = s[i]
      /\ \A i \in 1 .. Len(t) : Len(s) + i \in DOMAIN u /\ u[Len(s) + i] = t[i]
  BY <1>1
<1>3. ASSUME Rising(u)
      PROVE  /\ Rising(s) /\ Rising(t)
             /\ \A i \in DOMAIN s, j \in DOMAIN t : s[i].seq < t[j].seq
  <2>1. Rising(s)
    BY <1>1, <1>2, <1>3 DEF Rising
  <2>2. ASSUME NEW i \in 1 .. Len(t), NEW j \in 1 .. Len(t), i < j
        PROVE  t[i].seq < t[j].seq
    <3>1. Len(s) + i < Len(s) + j
      BY <1>1, <2>2
    <3> QED BY <1>2, <1>3, <3>1 DEF Rising
  <2>3. ASSUME NEW i \in 1 .. Len(s), NEW j \in 1 .. Len(t) PROVE s[i].seq < t[j].seq
    <3>1. i < Len(s) + j
      BY <1>1
    <3> QED BY <1>2, <1>3, <3>1 DEF Rising
  <2> QED BY <1>1, <2>1, <2>2, <2>3 DEF Rising
<1>4. ASSUME Rising(s), Rising(t),
             \A i \in DOMAIN s, j \in DOMAIN t : s[i].seq < t[j].seq
      PROVE  Rising(u)
  <2>1. ASSUME NEW i \in 1 .. Len(s) + Len(t), NEW j \in 1 .. Len(s) + Len(t), i < j
        PROVE  u[i].seq < u[j].seq
    <3>1. CASE j <= Len(s)
      <4>1. i \in DOMAIN s /\ j \in DOMAIN s /\ u[i] = s[i] /\ u[j] = s[j]
        BY <1>1, <2>1, <3>1
      <4> QED BY <1>4, <2>1, <4>1 DEF Rising
    <3>2. CASE i <= Len(s) /\ ~(j <= Len(s))
      <4>1. i \in DOMAIN s /\ j - Len(s) \in DOMAIN t /\ u[i] = s[i] /\ u[j] = t[j - Len(s)]
        BY <1>1, <2>1, <3>2
      <4> QED BY <1>4, <4>1
    <3>3. CASE ~(i <= Len(s))
      <4>1. /\ i - Len(s) \in DOMAIN t /\ j - Len(s) \in DOMAIN t /\ i - Len(s) < j - Len(s)
            /\ u[i] = t[i - Len(s)] /\ u[j] = t[j - Len(s)]
        BY <1>1, <2>1, <3>3
      <4> QED BY <1>4, <4>1 DEF Rising
    <3> QED BY <1>1, <2>1, <3>1, <3>2, <3>3
  <2> QED BY <1>1, <2>1 DEF Rising
<1> QED BY <1>3, <1>4 DEF u

LEMMA OrderlyJoin ==
  ASSUME NEW s \in Seq(Packet), NEW t \in Seq(Packet), NEW l \in Nat
  PROVE  Orderly(s \o t, l) <=>
           /\ Orderly(s, l) /\ Orderly(t, l)
           /\ \A i \in DOMAIN s, j \in DOMAIN t : s[i].seq < t[j].seq
<1> DEFINE u == s \o t
           Fine(w) == \A i \in DOMAIN w : w[i].intact /\ l < w[i].seq
<1>1. /\ DOMAIN u = 1 .. Len(s) + Len(t) /\ DOMAIN s = 1 .. Len(s) /\ DOMAIN t = 1 .. Len(t)
      /\ Len(s) \in Nat /\ Len(t) \in Nat
      /\ \A i \in 1 .. Len(s) + Len(t) : u[i] = IF i <= Len(s) THEN s[i] ELSE t[i - Len(s)]
  BY JoinedAt, PacketAt, Zenon
<1>5. Rising(u) <=> /\ Rising(s) /\ Rising(t)
                    /\ \A i \in DOMAIN s, j \in DOMAIN t : s[i].seq < t[j].seq
  BY RisingJoin, Zenon
<1> HIDE DEF u
<1>2. /\ \A i \in 1 .. Len(s) : i \in DOMAIN u /\ u[i] = s[i]
      /\ \A i \in 1 .. Len(t) : Len(s) + i \in DOMAIN u /\ u[Len(s) + i] = t[i]
      /\ \A i \in DOMAIN u : \/ i \in DOMAIN s /\ u[i] = s[i]
                             \/ i - Len(s) \in DOMAIN t /\ u[i] = t[i - Len(s)]
  BY <1>1
<1>3. Fine(u) => Fine(s) /\ Fine(t)
  <2> SUFFICES ASSUME Fine(u) PROVE Fine(s) /\ Fine(t)
    OBVIOUS
  <2>1. ASSUME NEW i \in DOMAIN s PROVE s[i].intact /\ l < s[i].seq
    BY <1>1, <1>2
  <2>2. ASSUME NEW i \in DOMAIN t PROVE t[i].intact /\ l < t[i].seq
    <3>1. Len(s) + i \in DOMAIN u /\ u[Len(s) + i] = t[i]
      BY <1>1, <1>2
    <3> QED BY <3>1
  <2> QED BY <2>1, <2>2
<1>4. Fine(s) /\ Fine(t) => Fine(u)
  <2> SUFFICES ASSUME Fine(s), Fine(t), NEW i \in DOMAIN u
               PROVE  u[i].intact /\ l < u[i].seq
    OBVIOUS
  <2> QED BY <1>2
<1> QED BY <1>3, <1>4, <1>5, Zenon DEF u, Orderly

\* What is left when packets in the middle are taken out.
LEMMA OrderlyWithout ==
  ASSUME NEW a \in Seq(Packet), NEW b \in Seq(Packet), NEW c \in Seq(Packet), NEW l \in Nat,
         Orderly(a \o (b \o c), l)
  PROVE  Orderly(a \o c, l)
<1>1. b \o c \in Seq(Packet)
  BY JoinedAt
<1> DEFINE d == b \o c
<1>2. /\ Orderly(a, l) /\ Orderly(d, l)
      /\ \A i \in DOMAIN a, j \in DOMAIN d : a[i].seq < d[j].seq
  BY <1>1, OrderlyJoin, Zenon
<1>3. Orderly(c, l)
  BY <1>2, OrderlyJoin, Zenon
<1>4. /\ DOMAIN d = 1 .. Len(b) + Len(c) /\ DOMAIN c = 1 .. Len(c)
      /\ Len(b) \in Nat /\ Len(c) \in Nat
      /\ \A i \in 1 .. Len(b) + Len(c) : d[i] = IF i <= Len(b) THEN b[i] ELSE c[i - Len(b)]
  BY JoinedAt, PacketAt, Zenon
<1> HIDE DEF d
<1>5. ASSUME NEW i \in DOMAIN a, NEW j \in DOMAIN c PROVE a[i].seq < c[j].seq
  <2>1. Len(b) + j \in DOMAIN d /\ d[Len(b) + j] = c[j]
    BY <1>4
  <2> QED BY <1>2, <2>1
<1> QED BY <1>2, <1>3, <1>5, OrderlyJoin, Zenon

-----------------------------------------------------------------------------
(* The verdict.                                                            *)

\* The queues of a state of the invariant.
LEMMA Queues ==
  ASSUME BufferInv, NEW p \in Port
  PROVE  /\ pendRecv[p] \in Seq(Packet) /\ rx[p] \in Seq(Packet) /\ tx[p] \in Seq(Packet)
         /\ pendSend[p] \in Seq(Packet) /\ got[p] \in Seq(Packet) /\ portState[p] \in PortState
<1> HIDE DEF Packet, PortState
<1> QED BY ByPort DEF Types

LEMMA WayJoined ==
  ASSUME NEW s1 \in Seq(Packet), NEW s2 \in Seq(Packet), NEW s3 \in Seq(Packet),
         NEW s4 \in Seq(Packet)
  PROVE  s1 \o s2 \o s3 \o s4 \in Seq(Packet)
<1> DEFINE u == s1 \o s2
           v == u \o s3
<1>1. u \in Seq(Packet)
  BY JoinedAt
<1>2. v \in Seq(Packet)
  <2> HIDE DEF u
  <2> QED BY <1>1, JoinedAt
<1>3. v \o s4 \in Seq(Packet)
  <2> HIDE DEF v
  <2> QED BY <1>2, JoinedAt
<1> QED BY <1>3

LEMMA WayAmong ==
  ASSUME NEW s1 \in Seq(Packet), NEW s2 \in Seq(Packet), NEW s3 \in Seq(Packet),
         NEW s4 \in Seq(Packet), NEW m
  PROVE  Among(s1 \o s2 \o s3 \o s4, m) <=>
           Among(s1, m) /\ Among(s2, m) /\ Among(s3, m) /\ Among(s4, m)
<1> DEFINE u == s1 \o s2
           v == u \o s3
<1>1. u \in Seq(Packet) /\ v \in Seq(Packet)
  <2>1. u \in Seq(Packet)
    BY JoinedAt
  <2> HIDE DEF u
  <2> QED BY <2>1, JoinedAt
<1>4. Among(v \o s4, m) <=> Among(v, m) /\ Among(s4, m)
  <2> HIDE DEF v
  <2> QED BY <1>1, AmongJoin
<1>5. Among(v, m) <=> Among(u, m) /\ Among(s3, m)
  <2> HIDE DEF u
  <2> QED BY <1>1, AmongJoin
<1>6. Among(u, m) <=> Among(s1, m) /\ Among(s2, m)
  BY AmongJoin
<1> QED BY <1>4, <1>5, <1>6

LEMMA WayIs ==
  ASSUME BufferInv, NEW p \in Port
  PROVE  /\ WayTo(p) \in Seq(Packet)
         /\ WayTo(p) = pendRecv[p] \o (rx[p] \o (tx[Other(p)] \o pendSend[Other(p)]))
         /\ \A m : Among(WayTo(p), m) <=>
              /\ Among(pendRecv[p], m) /\ Among(rx[p], m)
              /\ Among(tx[Other(p)], m) /\ Among(pendSend[Other(p)], m)
<1>1. Other(p) \in Port
  BY Ports
<1>2. /\ pendRecv[p] \in Seq(Packet) /\ rx[p] \in Seq(Packet)
      /\ tx[Other(p)] \in Seq(Packet) /\ pendSend[Other(p)] \in Seq(Packet)
  BY <1>1, Queues
<1> DEFINE a == pendRecv[p]
           b == rx[p]
           c == tx[Other(p)]
           d == pendSend[Other(p)]
<1>3. WayTo(p) = a \o b \o c \o d
  BY DEF WayTo
<1>4. a \in Seq(Packet) /\ b \in Seq(Packet) /\ c \in Seq(Packet) /\ d \in Seq(Packet)
  BY <1>2
<1> HIDE DEF a, b, c, d
<1>5. /\ a \o b \o c \o d \in Seq(Packet)
      /\ a \o b \o c \o d = a \o (b \o (c \o d))
  <2>1. a \o b \o c \o d \in Seq(Packet)
    BY <1>4, WayJoined
  <2>2. a \o b \o c \o d = a \o (b \o (c \o d))
    <3> DEFINE u == a \o b
               x == c \o d
    <3>1. u \in Seq(Packet) /\ x \in Seq(Packet)
      BY <1>4, JoinedAt
    <3>2. (u \o c) \o d = u \o x
      <4> HIDE DEF u
      <4> QED BY <1>4, <3>1, Regrouping
    <3>3. u \o x = a \o (b \o x)
      <4> HIDE DEF x
      <4> QED BY <1>4, <3>1, Regrouping
    <3> QED BY <3>2, <3>3
  <2> QED BY <2>1, <2>2
<1>6. \A m : Among(a \o b \o c \o d, m) <=>
              Among(a, m) /\ Among(b, m) /\ Among(c, m) /\ Among(d, m)
  BY <1>4, WayAmong
<1> QED BY <1>3, <1>5, <1>6, Zenon DEF a, b, c, d

\* Packets escaped the comparison of the hashes only where they are damaged,
\* m being the last number that the other port gave out.
Judged(p, m) ==
  /\ unchecked[p] \subseteq DOMAIN got[p]
  /\ \A i \in DOMAIN got[p] :
       IF i \in unchecked[p]
       THEN ~got[p][i].intact
       ELSE /\ got[p][i].seq \in 2 .. m
            /\ portState[p].bad_hash = 0 => got[p][i].intact

\* What Accounts says of a port.
PortAccounts(p) ==
  /\ portState[p].seq = portState[p].transmitted + 1
  /\ portState[p].received = Len(got[p])
  /\ Among(WayTo(p), portState[Other(p)].seq)
  /\ Judged(p, portState[Other(p)].seq)
  /\ portState[p].out_of_order = 0 =>
       /\ Rising(got[p])
       /\ \A i \in DOMAIN got[p] : got[p][i].seq <= portState[p].last_received_seq

\* What NoFalseAlarm and InOrder say of a port.
PortOrder(p) ==
  /\ portState[p].out_of_order = 0 /\ portState[p].bad_hash = 0 /\ portState[p].duplicated = 0
  /\ portState[p].last_received_seq <= portState[Other(p)].seq
  /\ Orderly(WayTo(p), portState[p].last_received_seq)

Ended ==
  /\ verdict # "none" => \A p \in Port : pc[p] = "exited"
  /\ verdict = "passed" => Passed

LEMMA TestByPort ==
  TestInv <=> /\ BufferInv /\ Ended
              /\ \A p \in Port : PortAccounts(p) /\ (faults = 0 => PortOrder(p))
<1>1. (NoFalseAlarm /\ InOrder) <=> \A p \in Port : faults = 0 => PortOrder(p)
  <2> HIDE DEF WayTo
  <2> QED BY DEF NoFalseAlarm, InOrder, PortOrder, Orderly
<1>2. BufferInv => (Accounts <=> Ended /\ \A p \in Port : PortAccounts(p))
  <2> SUFFICES ASSUME BufferInv PROVE Accounts <=> Ended /\ \A p \in Port : PortAccounts(p)
    OBVIOUS
  <2>1. ASSUME NEW p \in Port
        PROVE  (\A s \in Heading(p) : \A i \in DOMAIN s :
                  s[i].intact => Known(Other(p), s[i].seq))
                 <=> Among(WayTo(p), portState[Other(p)].seq)
    <3>1. Among(WayTo(p), portState[Other(p)].seq) <=>
            /\ Among(pendRecv[p], portState[Other(p)].seq)
            /\ Among(rx[p], portState[Other(p)].seq)
            /\ Among(tx[Other(p)], portState[Other(p)].seq)
            /\ Among(pendSend[Other(p)], portState[Other(p)].seq)
      BY WayIs, Zenon
    <3>2. (\A s \in Heading(p) : \A i \in DOMAIN s : s[i].intact => Known(Other(p), s[i].seq))
            <=> /\ Among(pendRecv[p], portState[Other(p)].seq)
                /\ Among(rx[p], portState[Other(p)].seq)
                /\ Among(tx[Other(p)], portState[Other(p)].seq)
                /\ Among(pendSend[Other(p)], portState[Other(p)].seq)
      BY Zenon DEF Heading, Known, Among, Given
    <3> QED BY <3>1, <3>2, Zenon
  <2> QED BY <2>1, Zenon DEF Accounts, PortAccounts, Judged, Known, Ended, At
<1> QED BY <1>1, <1>2, Zenon DEF TestInv

LEMMA TestByPortNext ==
  ASSUME BufferInv', Ended', \A p \in Port : PortAccounts(p)' /\ (faults' = 0 => PortOrder(p)')
  PROVE  TestInv'
<1>1. (/\ BufferInv /\ Ended
       /\ \A p \in Port : PortAccounts(p) /\ (faults = 0 => PortOrder(p)))' => TestInv'
  BY TestByPort, PTL
<1> QED BY <1>1

LEMMA TestStart == Init => TestInv
<1> SUFFICES ASSUME Init PROVE TestInv
  OBVIOUS
<1>1. BufferInv
  BY BuffersStart
<1>2. /\ \A p \in Port :
           /\ portState[p].seq = 1 /\ portState[p].transmitted = 0 /\ portState[p].received = 0
           /\ portState[p].out_of_order = 0 /\ portState[p].bad_hash = 0
           /\ portState[p].duplicated = 0 /\ portState[p].last_received_seq = 0
           /\ pendRecv[p] = <<>> /\ rx[p] = <<>> /\ tx[p] = <<>> /\ pendSend[p] = <<>>
           /\ got[p] = <<>> /\ unchecked[p] = {}
      /\ verdict = "none"
  BY DEF Init, TestInit
<1>3. ASSUME NEW p \in Port PROVE \A i \in DOMAIN WayTo(p) : FALSE
  <2>1. WayTo(p) = <<>> \o <<>> \o <<>> \o <<>>
    BY <1>2, Ports DEF WayTo
  <2>2. WayTo(p) = <<>>
    BY <2>1
  <2> QED BY <2>2
<1>4. ASSUME NEW p \in Port PROVE PortAccounts(p)
  <2>1. \A i \in DOMAIN WayTo(p) : FALSE
    BY <1>3
  <2> QED BY <1>2, <2>1, Ports DEF PortAccounts, Judged, Among, Rising
<1>5. ASSUME NEW p \in Port PROVE PortOrder(p)
  <2>1. \A i \in DOMAIN WayTo(p) : FALSE
    BY <1>3
  <2> QED BY <1>2, <2>1, Ports DEF PortOrder, Orderly, Rising
<1> QED BY <1>1, <1>2, <1>4, <1>5, TestByPort DEF Ended

\* A thread that has not ended, or a frame it sent, finds the verdict open.
LEMMA NotEnded ==
  ASSUME TestInv, NEW p \in Port, pc[p] # "exited", verdict' = verdict
  PROVE  Ended'
<1>1. verdict = "none"
  BY TestByPort DEF Ended
<1> QED BY <1>1 DEF Ended

\* A port whose packets and counters are left alone.
LEMMA SamePort ==
  ASSUME TestInv, NEW p \in Port, WayTo(p)' = WayTo(p), got'[p] = got[p],
         unchecked'[p] = unchecked[p], portState'[p] = portState[p], portState'[Other(p)].seq = portState[Other(p)].seq
  PROVE  PortAccounts(p)' /\ (faults = 0 => PortOrder(p)')
<1>1. PortAccounts(p) /\ (faults = 0 => PortOrder(p))
  BY TestByPort
<1>2. PortAccounts(p)'
  BY <1>1 DEF PortAccounts, Judged
<1>3. PortOrder(p) => PortOrder(p)'
  BY DEF PortOrder
<1> QED BY <1>1, <1>2, <1>3

LEMMA StillAccounts ==
  ASSUME TestInv, BufferInv', Ended', faults' = faults,
         UNCHANGED <<portState, pendSend, pendRecv, tx, rx, got, unchecked>>
  PROVE  TestInv'
<1>1. ASSUME NEW p \in Port PROVE PortAccounts(p)' /\ (faults' = 0 => PortOrder(p)')
  <2>1. WayTo(p)' = WayTo(p)
    BY DEF WayTo
  <2> QED BY <2>1, SamePort
<1> QED BY <1>1, TestByPortNext

LEMMA StillSteps ==
  ASSUME TestInv, BufferInv', NEW p \in Port,
         \/ InitialFill(p) \/ ReadTime(p) \/ CheckDone(p) \/ Service(p) \/ Refill(p)
  PROVE  TestInv'
<1>1. /\ UNCHANGED <<portState, pendSend, pendRecv, tx, rx, got, unchecked, verdict, faults>>
      /\ pc[p] # "exited"
  BY DEF InitialFill, ReadTime, CheckDone, NoteDone, Service, Refill, Fill, At,
         testVars, threadVars, sockVars, worldVars, history
<1>2. Ended'
  BY <1>1, NotEnded
<1> QED BY <1>1, <1>2, StillAccounts

LEMMA TickFinalize ==
  ASSUME TestInv, BufferInv', Tick \/ Finalize \/ UNCHANGED vars PROVE TestInv'
<1>1. /\ UNCHANGED <<portState, pendSend, pendRecv, tx, rx, got, unchecked, faults, pc>>
  BY DEF Tick, Finalize, vars, testVars, threadVars, sockVars, worldVars, history
<1>2. Passed' <=> Passed
  BY <1>1 DEF Passed, CountsAgree
<1>3. Ended
  BY TestByPort
<1>4. Ended'
  <2>1. CASE Finalize
    <3>1. /\ \A q \in Port : pc'[q] = "exited"
          /\ verdict' = "passed" => Passed
      BY <1>1, <2>1 DEF Finalize, At
    <3> QED BY <1>2, <3>1 DEF Ended
  <2>2. CASE Tick \/ UNCHANGED vars
    <3>1. verdict' = verdict
      BY <2>2 DEF Tick, vars, worldVars, history
    <3> QED BY <1>1, <1>2, <1>3, <3>1 DEF Ended
  <2> QED BY <2>1, <2>2
<1> QED BY <1>1, <1>4, StillAccounts

\* Receiving moves packets along the way to p.
LEMMA TryRecvAccounts ==
  ASSUME TestInv, BufferInv', NEW p \in Port, TryRecv(p) PROVE TestInv'
<1> HIDE DEF Packet, PortState
<1> DEFINE n == Smaller(Smaller(PendingLen - Len(pendRecv[p]), SocketBatch), Len(rx[p]))
           o == Other(p)
<1>1. BufferInv /\ o \in Port /\ o # p /\ Other(o) = p /\ \A q \in Port : q = p \/ q = o
  BY Ports DEF TestInv
<1>2. Types /\ Numbers
  BY <1>1, ByPort, InvNumbers
<1>3. n \in 0 .. Len(rx[p])
  <2>1. /\ PendingLen - Len(pendRecv[p]) \in Nat /\ Len(rx[p]) \in Nat
    BY <1>2, Constants DEF Numbers
  <2>2. Smaller(PendingLen - Len(pendRecv[p]), SocketBatch) \in Nat
    BY <2>1, SmallerFacts, Constants
  <2>3. n \in Nat /\ n <= Len(rx[p])
    BY <2>1, <2>2, SmallerFacts
  <2> HIDE DEF n
  <2> QED BY <2>1, <2>3
<1>4. /\ pendRecv' = [pendRecv EXCEPT ![p] = pendRecv[p] \o First(rx[p], n)]
      /\ rx' = [rx EXCEPT ![p] = Rest(rx[p], n)] /\ pc[p] = "recv"
      /\ UNCHANGED <<portState, tx, pendSend, got, unchecked, verdict, faults>>
  BY <1>2 DEF TryRecv, At, Types, testVars, worldVars, history
<1> HIDE DEF n
<1> DEFINE a == pendRecv[p]
           b == rx[p]
           c == tx[o]
           d == pendSend[o]
           head == First(b, n)
           tail == Rest(b, n)
           new == a \o head
<1>5. /\ a \in Seq(Packet) /\ b \in Seq(Packet) /\ c \in Seq(Packet) /\ d \in Seq(Packet)
      /\ head \in Seq(Packet) /\ tail \in Seq(Packet) /\ head \o tail = b
  <2>1. /\ a \in Seq(Packet) /\ b \in Seq(Packet) /\ c \in Seq(Packet) /\ d \in Seq(Packet)
    BY <1>1, Queues
  <2>2. n \in 0 .. Len(b)
    BY <1>3
  <2> HIDE DEF a, b, c, d
  <2> QED BY <2>1, <2>2, Cut, CutJoined
<1>6. pendRecv'[p] = new /\ rx'[p] = tail /\ tx'[o] = c /\ pendSend'[o] = d
  BY <1>2, <1>4 DEF Types
<1>7. WayTo(p)' = WayTo(p)
  <2>1. WayTo(p) = a \o b \o c \o d /\ WayTo(p)' = new \o tail \o c \o d
    BY <1>6 DEF WayTo
  <2> HIDE DEF a, b, c, d, head, tail
  <2>2. new \o tail = a \o (head \o tail)
    <3>1. a \in Seq(Packet) /\ head \in Seq(Packet) /\ tail \in Seq(Packet)
      BY <1>5
    <3> QED BY <3>1, Regrouping
  <2>3. new \o tail = a \o b
    BY <1>5, <2>2
  <2> QED BY <2>1, <2>3
<1>8. WayTo(o)' = WayTo(o)
  <2>1. /\ pendRecv'[o] = pendRecv[o] /\ rx'[o] = rx[o] /\ tx'[p] = tx[p]
        /\ pendSend'[p] = pendSend[p]
    BY <1>1, <1>2, <1>4 DEF Types
  <2> HIDE DEF o
  <2> QED BY <1>1, <2>1 DEF WayTo
<1>9. ASSUME NEW q \in Port PROVE PortAccounts(q)' /\ (faults' = 0 => PortOrder(q)')
  <2>1. WayTo(q)' = WayTo(q)
    BY <1>1, <1>7, <1>8
  <2> QED BY <1>4, <2>1, SamePort
<1>10. Ended'
  BY <1>4, NotEnded
<1> QED BY <1>9, <1>10, TestByPortNext

\* Sending moves packets along the way to the other port.
LEMMA TrySendAccounts ==
  ASSUME TestInv, BufferInv', NEW p \in Port, TrySend(p) PROVE TestInv'
<1> HIDE DEF Packet, PortState
<1> DEFINE batch == Smaller(Len(pendSend[p]), SocketBatch)
           n == IF Len(tx[p]) + batch <= RingSize THEN batch ELSE 0
           o == Other(p)
<1>1. BufferInv /\ o \in Port /\ o # p /\ Other(o) = p /\ \A q \in Port : q = p \/ q = o
  BY Ports DEF TestInv
<1>2. Types /\ Numbers
  BY <1>1, ByPort, InvNumbers
<1>3. n \in 0 .. Len(pendSend[p])
  <2>1. Len(pendSend[p]) \in Nat
    BY <1>2 DEF Numbers
  <2>2. batch \in Nat /\ batch <= Len(pendSend[p])
    BY <2>1, SmallerFacts, Constants
  <2> HIDE DEF batch
  <2> QED BY <2>1, <2>2
<1>4. /\ tx' = [tx EXCEPT ![p] = tx[p] \o First(pendSend[p], n)]
      /\ pendSend' = [pendSend EXCEPT ![p] = Rest(pendSend[p], n)] /\ pc[p] = "send"
      /\ UNCHANGED <<portState, rx, pendRecv, got, unchecked, verdict, faults>>
  BY <1>2 DEF TrySend, At, Types, testVars, worldVars, history
<1> HIDE DEF n
<1> DEFINE a == pendRecv[o]
           b == rx[o]
           c == tx[p]
           d == pendSend[p]
           head == First(d, n)
           tail == Rest(d, n)
           new == c \o head
           u == a \o b
<1>5. /\ a \in Seq(Packet) /\ b \in Seq(Packet) /\ c \in Seq(Packet) /\ d \in Seq(Packet)
      /\ head \in Seq(Packet) /\ tail \in Seq(Packet) /\ head \o tail = d
      /\ u \in Seq(Packet)
  <2>1. /\ a \in Seq(Packet) /\ b \in Seq(Packet) /\ c \in Seq(Packet) /\ d \in Seq(Packet)
    BY <1>1, Queues
  <2>2. n \in 0 .. Len(d)
    BY <1>3
  <2> HIDE DEF a, b, c, d
  <2> QED BY <2>1, <2>2, Cut, CutJoined, JoinedAt
<1>6. pendRecv'[o] = a /\ rx'[o] = b /\ tx'[p] = new /\ pendSend'[p] = tail
  BY <1>2, <1>4 DEF Types
<1>7. WayTo(o)' = WayTo(o)
  <2>1. WayTo(o) = u \o c \o d /\ WayTo(o)' = u \o new \o tail
    BY <1>1, <1>6 DEF WayTo
  <2> HIDE DEF a, b, c, d, head, tail, u
  <2>2. u \o new = (u \o c) \o head
    BY <1>5, Regrouping, Zenon
  <2> DEFINE v == u \o c
  <2>3. v \in Seq(Packet)
    BY <1>5, JoinedAt
  <2>4. (v \o head) \o tail = v \o d
    <3> HIDE DEF v
    <3> QED BY <1>5, <2>3, Regrouping
  <2> QED BY <2>1, <2>2, <2>4
<1>8. WayTo(p)' = WayTo(p)
  <2>1. /\ pendRecv'[p] = pendRecv[p] /\ rx'[p] = rx[p] /\ tx'[o] = tx[o]
        /\ pendSend'[o] = pendSend[o]
    BY <1>1, <1>2, <1>4 DEF Types
  <2> QED BY <2>1 DEF WayTo
<1>9. ASSUME NEW q \in Port PROVE PortAccounts(q)' /\ (faults' = 0 => PortOrder(q)')
  <2>1. WayTo(q)' = WayTo(q)
    BY <1>1, <1>7, <1>8
  <2> QED BY <1>4, <2>1, SamePort
<1>10. Ended'
  BY <1>4, NotEnded
<1> QED BY <1>9, <1>10, TestByPortNext

\* New packets are numbered above all that are on the way.
LEMMA TestTransmitAccounts ==
  ASSUME TestInv, BufferInv', NEW p \in Port, TestTransmit(p) PROVE TestInv'
<1> HIDE DEF Packet, PortState
<1> DEFINE room == Smaller(PendingLen - Len(pendSend[p]), bufs[p])
           n == Queued(p, now[p], room)
           o == Other(p)
<1>1. BufferInv /\ o \in Port /\ o # p /\ Other(o) = p /\ \A q \in Port : q = p \/ q = o
  BY Ports DEF TestInv
<1>2. /\ Types /\ Numbers /\ PortLedger(p)
      /\ \A q \in Port : PortAccounts(q) /\ (faults = 0 => PortOrder(q))
  BY <1>1, ByPort, InvNumbers, TestByPort
<1>3. /\ pendSend' = [pendSend EXCEPT ![p] = pendSend[p] \o NewPackets(p, n)]
      /\ pc[p] = "transmit" /\ Transmit(p, now[p], room)
      /\ UNCHANGED <<rx, tx, pendRecv, got, unchecked, verdict, faults>>
  BY <1>2 DEF TestTransmit, At, Types, sockVars, worldVars, history
<1>4. room \in Nat /\ now[p] \in Nat /\ portState[p].transmitted <= Total
      /\ portState[p] \in PortState /\ portState[o] \in PortState
  <2>1. PendingLen - Len(pendSend[p]) \in Nat /\ bufs[p] \in Nat
    BY <1>2, Constants DEF Numbers
  <2>2. room \in Nat
    BY <2>1, SmallerFacts
  <2>3. now[p] \in Nat
    BY <1>2, Constants DEF Numbers
  <2> QED BY <1>1, <1>2, <2>2, <2>3 DEF PortLedger, Numbers
<1> HIDE DEF room
<1>5. n \in Nat
  BY <1>4, QueuedFacts, StateFields
<1>6. /\ portState'[p].transmitted = portState[p].transmitted + n
      /\ portState'[p].seq = portState[p].seq + n
      /\ portState'[p].received = portState[p].received
      /\ portState'[p].out_of_order = portState[p].out_of_order
      /\ portState'[p].bad_hash = portState[p].bad_hash
      /\ portState'[p].duplicated = portState[p].duplicated
      /\ portState'[p].last_received_seq = portState[p].last_received_seq
      /\ portState'[o] = portState[o]
  <2>1. portState \in [Port -> PortState]
    BY <1>2 DEF Types
  <2>2. o \in Port \ {p}
    BY <1>1
  <2> HIDE DEF o
  <2> QED BY <1>3, <1>4, <2>1, <2>2, Transmitted
<1> HIDE DEF n
<1>7. /\ portState[p].seq \in Nat /\ portState[p].transmitted \in Nat
      /\ portState[o].last_received_seq \in Nat
  BY <1>4, StateFields
<1>8. PortAccounts(p)' /\ (faults' = 0 => PortOrder(p)')
  <2>1. WayTo(p)' = WayTo(p)
    <3>1. /\ pendRecv'[p] = pendRecv[p] /\ rx'[p] = rx[p] /\ tx'[o] = tx[o]
          /\ pendSend'[o] = pendSend[o]
      BY <1>1, <1>2, <1>3 DEF Types
    <3> QED BY <3>1 DEF WayTo
  <2>2. portState'[p].seq = portState'[p].transmitted + 1
    BY <1>2, <1>5, <1>6, <1>7 DEF PortAccounts
  <2>3. PortAccounts(p)'
    BY <1>1, <1>2, <1>3, <1>6, <2>1, <2>2 DEF PortAccounts, Judged
  <2>4. PortOrder(p) => PortOrder(p)'
    BY <1>6, <2>1 DEF PortOrder
  <2> QED BY <1>2, <1>3, <2>3, <2>4
<1> DEFINE new == NewPackets(p, n)
           way == WayTo(o)
<1>9. /\ new \in Seq(Packet) /\ DOMAIN new = 1 .. n
      /\ \A k \in 1 .. n : new[k].seq = portState[p].seq + k /\ new[k].intact
      /\ way \in Seq(Packet)
  <2>1. new \in Seq(Packet) /\ Len(new) = n
    BY <1>4, <1>5, FreshPackets
  <2>2. \A k \in 1 .. n : new[k].seq = portState[p].seq + k /\ new[k].intact
    BY <1>4, <1>5, FreshPackets
  <2>3. DOMAIN new = 1 .. n
    BY <2>1, PacketAt
  <2>4. way \in Seq(Packet)
    BY <1>1, WayIs
  <2> QED BY <2>1, <2>2, <2>3, <2>4
<1>10. WayTo(o)' = way \o new
  <2> DEFINE a == pendRecv[o]
             b == rx[o]
             c == tx[p]
             d == pendSend[p]
  <2>1. /\ a \in Seq(Packet) /\ b \in Seq(Packet) /\ c \in Seq(Packet) /\ d \in Seq(Packet)
    BY <1>1, Queues
  <2>2. pendRecv'[o] = a /\ rx'[o] = b /\ tx'[p] = c /\ pendSend'[p] = d \o new
    BY <1>2, <1>3 DEF Types
  <2>3. way = a \o b \o c \o d /\ WayTo(o)' = a \o b \o c \o (d \o new)
    BY <1>1, <2>2 DEF WayTo
  <2> HIDE DEF a, b, c, d, new, way
  <2> DEFINE v == a \o b \o c
  <2>4. v \in Seq(Packet)
    <3>1. a \o b \in Seq(Packet)
      BY <2>1, JoinedAt
    <3> DEFINE u == a \o b
    <3> HIDE DEF u
    <3>2. u \o c \in Seq(Packet)
      BY <2>1, <3>1, JoinedAt DEF u
    <3> QED BY <3>2 DEF u
  <2>5. way = v \o d /\ WayTo(o)' = v \o (d \o new)
    BY <2>3
  <2> HIDE DEF v
  <2> QED BY <1>9, <2>1, <2>4, <2>5, Regrouping
<1>11. PortAccounts(o)'
  <2>1. /\ PortAccounts(o) /\ portState[p].seq <= portState'[p].seq
        /\ portState'[p].seq \in Nat
    BY <1>1, <1>2, <1>5, <1>6, <1>7
  <2>2. Among(way, portState'[p].seq)
    <3>1. Among(way, portState[p].seq)
      BY <1>1, <2>1 DEF PortAccounts
    <3> HIDE DEF way
    <3> QED BY <1>7, <2>1, <3>1, AmongGrows
  <2>3. Among(new, portState'[p].seq)
    <3>1. portState[p].seq >= 1
      BY <1>2, <1>7 DEF PortAccounts
    <3> HIDE DEF new
    <3> QED BY <1>5, <1>6, <1>7, <1>9, <3>1 DEF Among, Given
  <2>4. Among(WayTo(o)', portState'[p].seq)
    <3> HIDE DEF way, new
    <3>1. Among(way \o new, portState'[p].seq)
      BY <1>9, <2>2, <2>3, AmongJoin
    <3> QED BY <1>10, <3>1
  <2>5. Judged(o, portState[p].seq)'
    <3>1. Judged(o, portState[p].seq)
      BY <1>1, <2>1 DEF PortAccounts
    <3>2. portState[p].seq \in Nat /\ \A x : x \in 2 .. portState[p].seq => x \in 2 .. portState'[p].seq
      BY <1>7, <2>1
    <3> HIDE DEF o
    <3> QED BY <1>3, <1>6, <3>1, <3>2 DEF Judged
  <2>6. got'[o] = got[o]
    BY <1>3
  <2> HIDE DEF o
  <2> QED BY <1>1, <1>6, <2>1, <2>2, <2>4, <2>5, <2>6 DEF PortAccounts
<1>12. faults' = 0 => PortOrder(o)'
  <2> SUFFICES ASSUME faults' = 0 PROVE PortOrder(o)'
    OBVIOUS
  <2> DEFINE l == portState[o].last_received_seq
             m == portState[p].seq
  <2>1. PortOrder(o) /\ PortAccounts(o)
    BY <1>1, <1>2, <1>3
  <2>2. l \in Nat /\ m \in Nat /\ l <= m /\ Among(way, m) /\ Orderly(way, l)
        /\ portState'[o].last_received_seq <= portState'[p].seq
    BY <1>5, <1>6, <1>1, <1>7, <2>1 DEF PortAccounts, PortOrder
  <2> HIDE DEF l, way, new
  <2>3. DOMAIN way = 1 .. Len(way) /\ \A i \in DOMAIN way : way[i].seq \in Nat /\ way[i].seq <= m
    BY <1>9, <2>2, PacketAt DEF Among, Given, Orderly
  <2> DEFINE mm == m
  <2>5. \A k \in DOMAIN new : new[k].seq = mm + k /\ new[k].intact /\ k \in Nat /\ k >= 1
    BY <1>9
  <2>6. mm \in Nat /\ l <= mm /\ \A i \in DOMAIN way : way[i].seq \in Nat /\ way[i].seq <= mm
    BY <2>2, <2>3
  <2> HIDE DEF m, mm
  <2>7. Orderly(new, l)
    <3>1. \A i, j \in DOMAIN new : i < j => new[i].seq < new[j].seq
      BY <2>5, <2>6
    <3>2. \A i \in DOMAIN new : new[i].intact /\ l < new[i].seq
      BY <2>2, <2>5, <2>6
    <3> QED BY <3>1, <3>2 DEF Orderly, Rising
  <2>8. \A i \in DOMAIN way, j \in DOMAIN new : way[i].seq < new[j].seq
    BY <2>5, <2>6
  <2>9. Orderly(way \o new, l)
    BY <1>9, <2>2, <2>7, <2>8, OrderlyJoin
  <2> QED BY <1>1, <1>6, <1>10, <2>1, <2>2, <2>9 DEF PortOrder, l
<1>13. Ended'
  BY <1>3, NotEnded
<1> QED BY <1>1, <1>8, <1>11, <1>12, <1>13, TestByPortNext

\* What was received is counted and judged, and is behind all that is to come.
LEMMA TestReceiveAccounts ==
  ASSUME TestInv, BufferInv', NEW p \in Port, TestReceive(p) PROVE TestInv'
<1> HIDE DEF Packet, PortState
<1> DEFINE o == Other(p)
           d == pendRecv[p]
           n == Len(d)
           s == portState[p]
           end == Checked(p, s, d)[n]
           g == got[p]
           m == portState[o].seq
<1>1. BufferInv /\ o \in Port /\ o # p /\ Other(o) = p /\ \A q \in Port : q = p \/ q = o
  BY Ports DEF TestInv
<1>2. /\ Types /\ PortAccounts(p) /\ (faults = 0 => PortOrder(p))
  BY <1>1, ByPort, TestByPort
<1>3. /\ d \in Seq(Packet) /\ g \in Seq(Packet) /\ s \in PortState /\ portState[o] \in PortState
      /\ n \in Nat /\ n \in 0 .. n /\ DOMAIN d = 1 .. n
  <2>1. d \in Seq(Packet) /\ g \in Seq(Packet) /\ s \in PortState /\ portState[o] \in PortState
    BY <1>1, Queues
  <2> QED BY <2>1
<1>4. /\ portState' = [portState EXCEPT ![p] = end] /\ pc[p] = "receive"
      /\ pendRecv' = [pendRecv EXCEPT ![p] = <<>>]
      /\ got' = [got EXCEPT ![p] = g \o d]
      /\ unchecked' = [unchecked EXCEPT ![p] = @ \cup
           {i \in Len(got[p]) + 1 .. Len(got'[p]) : ~Known(Other(p), got'[p][i].seq)}]
      /\ UNCHANGED <<rx, tx, pendSend, verdict, faults>>
  <2>1. portState' = [portState EXCEPT ![p] = end]
    <3>1. Receive(p, d)
      BY DEF TestReceive
    <3> QED BY <1>2, <3>1, Zenon DEF Receive
  <2> HIDE DEF end
  <2> QED BY <2>1 DEF TestReceive, At, sockVars, worldVars, history
<1>5. /\ end.transmitted = s.transmitted /\ end.received = s.received + n
      /\ end.duplicated = s.duplicated /\ end.seq = s.seq
  BY <1>3, LoopKeeps, Zenon
<1>6. end \in PortState
  BY <1>3, LoopSteps, Zenon
<1>7. /\ \/ end.last_received_seq = s.last_received_seq
         \/ \E j \in 1 .. n : end.last_received_seq = d[j].seq
      /\ end.out_of_order = 0 =>
              /\ s.out_of_order = 0
              /\ \A i, j \in 1 .. n : i < j => d[i].seq < d[j].seq
              /\ \A i \in 1 .. n : /\ s.last_received_seq < d[i].seq
                                   /\ d[i].seq <= end.last_received_seq
              /\ s.last_received_seq <= end.last_received_seq
  BY <1>3, LoopOrder, Zenon
<1>8. Among(d, m) /\ Judged(p, m) /\ m \in Nat
  BY <1>1, <1>2, <1>3, WayIs, StateFields DEF PortAccounts
<1>9. end.bad_hash = 0 =>
        s.bad_hash = 0 /\ \A i \in 1 .. n : d[i].seq \in 2 .. m => d[i].intact
  <2>1. end.bad_hash = 0 =>
          s.bad_hash = 0 /\ \A i \in 1 .. n : Known(o, d[i].seq) => d[i].intact
    BY <1>3, LoopHashes, Zenon
  <2> HIDE DEF end, n, d
  <2> QED BY <2>1 DEF Known
<1> DEFINE R == rx[p] \o (tx[o] \o pendSend[o])
<1>10. R \in Seq(Packet) /\ WayTo(p) = d \o R /\ WayTo(p)' = R
  <2> DEFINE b == rx[p]
             c == tx[o]
             e == pendSend[o]
             t == c \o e
  <2>1. b \in Seq(Packet) /\ c \in Seq(Packet) /\ e \in Seq(Packet)
    BY <1>1, Queues
  <2>2. WayTo(p) = d \o R
    BY <1>1, WayIs
  <2>3. WayTo(p)' = <<>> \o b \o c \o e
    BY <1>2, <1>4 DEF WayTo, Types
  <2> HIDE DEF b, c, e
  <2>4. <<>> \o b = b
    BY <2>1, ConcatEmptySeq
  <2>5. b \o c \o e = b \o t
    BY <2>1, Regrouping
  <2>6. t \in Seq(Packet)
    BY <2>1, JoinedAt
  <2>7. b \o t \in Seq(Packet)
    <3> HIDE DEF t
    <3> QED BY <2>1, <2>6, JoinedAt
  <2> QED BY <2>2, <2>3, <2>4, <2>5, <2>7 DEF b, c, e
<1> HIDE DEF R
<1>11. portState'[p] = end /\ portState'[o] = portState[o] /\ got'[p] = g \o d /\ got'[o] = got[o]
      /\ unchecked'[o] = unchecked[o]
      /\ unchecked'[p] = unchecked[p] \cup
           {i \in Len(g) + 1 .. Len(g \o d) : (g \o d)[i].seq \notin 2 .. m}
  BY <1>1, <1>2, <1>4 DEF Types, Known
<1> HIDE DEF end
<1>12. PortAccounts(p)'
  <2> DEFINE h == g \o d
  <2>1. /\ h \in Seq(Packet) /\ Len(h) = Len(g) + n /\ Len(g) \in Nat
        /\ DOMAIN h = 1 .. Len(g) + n /\ DOMAIN g = 1 .. Len(g)
        /\ \A i \in 1 .. Len(g) + n : h[i] = IF i <= Len(g) THEN g[i] ELSE d[i - Len(g)]
    <3>1. /\ h \in Seq(Packet) /\ DOMAIN h = 1 .. Len(g) + Len(d)
          /\ \A i \in 1 .. Len(g) + Len(d) : h[i] = IF i <= Len(g) THEN g[i] ELSE d[i - Len(g)]
      BY <1>3, JoinedAt, Zenon
    <3>2. Len(h) = Len(g) + Len(d) /\ Len(g) \in Nat /\ DOMAIN g = 1 .. Len(g)
      <4> HIDE DEF d, g
      <4> QED BY <1>3, Joining, PacketAt
    <3> QED BY <3>1, <3>2
  <2>2. end.seq = end.transmitted + 1 /\ end.received = Len(h)
    <3>1. s.seq = s.transmitted + 1 /\ s.received = Len(g)
      BY <1>2 DEF PortAccounts
    <3> HIDE DEF h
    <3> QED BY <1>5, <2>1, <3>1
  <2>4. Among(R, m)
    <3>1. Among(d \o R, m)
      BY <1>2, <1>10 DEF PortAccounts
    <3> HIDE DEF d
    <3> QED BY <1>3, <1>10, <3>1, AmongJoin
  <2>5. ASSUME NEW i \in DOMAIN h, NEW u \in SUBSET Nat, u = unchecked[p] \cup
                 {k \in Len(g) + 1 .. Len(h) : h[k].seq \notin 2 .. m}
        PROVE  IF i \in u THEN ~h[i].intact
               ELSE h[i].seq \in 2 .. m /\ (end.bad_hash = 0 => h[i].intact)
    <3>1. CASE i <= Len(g)
      <4>1. i \in DOMAIN g /\ h[i] = g[i] /\ (i \in u <=> i \in unchecked[p])
        <5> HIDE DEF h, g, d, n, m
        <5> QED BY <2>1, <2>5, <3>1
      <4> QED BY <1>8, <1>9, <4>1 DEF Judged
    <3>2. CASE ~(i <= Len(g))
      <4>1. i - Len(g) \in 1 .. n /\ h[i] = d[i - Len(g)]
        <5> HIDE DEF h, g, d, n
        <5> QED BY <1>3, <2>1, <3>2
      <4>2. i \notin unchecked[p] /\ i \in Len(g) + 1 .. Len(h)
        <5>1. unchecked[p] \subseteq DOMAIN g
          BY <1>8 DEF Judged
        <5> HIDE DEF h, g, d, n
        <5> QED BY <2>1, <3>2, <5>1
      <4>3. i \in u <=> h[i].seq \notin 2 .. m
        <5> HIDE DEF h, g, d, n, m
        <5> QED BY <2>5, <4>2
      <4>4. Given(d[i - Len(g)], m)
        BY <1>3, <1>8, <4>1 DEF Among
      <4> QED BY <1>9, <4>1, <4>3, <4>4 DEF Given
    <3> QED BY <3>1, <3>2
  <2>7. ASSUME end.out_of_order = 0
        PROVE  Rising(h) /\ \A i \in DOMAIN h : h[i].seq <= end.last_received_seq
    <3>1. /\ Rising(g) /\ \A i \in DOMAIN g : g[i].seq <= s.last_received_seq
      BY <1>2, <1>7, <2>7 DEF PortAccounts
    <3>2. Rising(d)
      BY <1>3, <1>7, <2>7 DEF Rising
    <3>3. /\ \A i \in DOMAIN g : g[i].seq \in Nat
          /\ \A i \in DOMAIN d : d[i].seq \in Nat
          /\ s.last_received_seq \in Nat /\ end.last_received_seq \in Nat
      BY <1>3, <1>6, PacketAt, StateFields
    <3>4. \A i \in DOMAIN g, j \in DOMAIN d : g[i].seq < d[j].seq
      BY <1>3, <1>7, <2>7, <3>1, <3>3
    <3>5. Rising(h)
      <4> HIDE DEF d, g
      <4> QED BY <1>3, <3>1, <3>2, <3>4, RisingJoin
    <3>6. ASSUME NEW i \in DOMAIN h PROVE h[i].seq <= end.last_received_seq
      <4>1. CASE i <= Len(g)
        <5>1. i \in DOMAIN g /\ h[i] = g[i]
          BY <2>1, <4>1
        <5>2. g[i].seq <= s.last_received_seq /\ s.last_received_seq <= end.last_received_seq
          BY <1>7, <2>7, <3>1, <5>1
        <5> QED BY <3>3, <5>1, <5>2
      <4>2. CASE ~(i <= Len(g))
        <5>1. i - Len(g) \in 1 .. n /\ h[i] = d[i - Len(g)]
          <6> HIDE DEF h, g, d, n
          <6> QED BY <1>3, <2>1, <4>2
        <5> QED BY <1>7, <2>7, <5>1
      <4> QED BY <4>1, <4>2
    <3> QED BY <3>5, <3>6
  <2> HIDE DEF h
  <2>8. got'[p] = h
    BY <1>11 DEF h
  <2> HIDE DEF m, s, g, d
  <2>9. portState'[Other(p)].seq = m
    BY <1>11 DEF m
  <2>10. Judged(p, portState[Other(p)].seq)'
    <3>1. /\ unchecked'[p] = unchecked[p] \cup
                {k \in Len(g) + 1 .. Len(h) : h[k].seq \notin 2 .. m}
          /\ unchecked[p] \subseteq DOMAIN g
      BY <1>8, <1>11 DEF Judged, g, h, m
    <3>2. unchecked'[p] \subseteq DOMAIN h /\ unchecked'[p] \in SUBSET Nat
      BY <2>1, <3>1
    <3>3. \A i \in DOMAIN h :
            IF i \in unchecked'[p] THEN ~h[i].intact
            ELSE h[i].seq \in 2 .. m /\ (end.bad_hash = 0 => h[i].intact)
      BY <2>5, <3>1, <3>2
    <3> QED BY <1>11, <2>8, <2>9, <3>2, <3>3 DEF Judged
  <2> QED BY <1>10, <1>11, <2>2, <2>4, <2>7, <2>8, <2>9, <2>10 DEF PortAccounts
<1>13. faults' = 0 => PortOrder(p)'
  <2> SUFFICES ASSUME faults' = 0 PROVE PortOrder(p)'
    OBVIOUS
  <2> DEFINE l == s.last_received_seq
  <2>1. PortOrder(p) /\ l \in Nat
    BY <1>2, <1>3, <1>4, StateFields
  <2>2. /\ Orderly(d, l) /\ Orderly(R, l)
        /\ \A i \in DOMAIN d, j \in DOMAIN R : d[i].seq < R[j].seq
    <3>1. Orderly(d \o R, l)
      BY <1>10, <2>1 DEF PortOrder
    <3> HIDE DEF d, l
    <3> QED BY <1>3, <1>10, <2>1, <3>1, OrderlyJoin
  <2>3. /\ Rising(d) /\ \A i \in DOMAIN d : d[i].intact /\ s.last_received_seq < d[i].seq
    BY <2>2 DEF Orderly
  <2>4. /\ end.out_of_order = s.out_of_order /\ end.bad_hash = s.bad_hash
        /\ end.last_received_seq = IF n = 0 THEN s.last_received_seq ELSE d[n].seq
    <3>1. /\ Checked(p, s, d)[n].out_of_order = s.out_of_order
          /\ Checked(p, s, d)[n].bad_hash = s.bad_hash
          /\ Checked(p, s, d)[n].last_received_seq =
               IF n = 0 THEN s.last_received_seq ELSE d[n].seq
      BY <1>3, <2>3, LoopClean, Zenon
    <3> HIDE DEF n, s, d
    <3> QED BY <3>1 DEF end
  <2>5. Orderly(R, end.last_received_seq)
    <3>1. CASE n = 0
      BY <2>2, <2>4, <3>1
    <3>2. CASE n # 0
      <4>1. n \in DOMAIN d /\ end.last_received_seq = d[n].seq
        BY <1>3, <2>4, <3>2
      <4> QED BY <2>2, <4>1 DEF Orderly
    <3> QED BY <3>1, <3>2
  <2>6. /\ end.out_of_order = 0 /\ end.bad_hash = 0 /\ end.duplicated = 0
    BY <1>5, <2>1, <2>4 DEF PortOrder
  <2>7. end.last_received_seq <= m
    <3>1. s.last_received_seq <= m
      BY <2>1 DEF PortOrder
    <3>2. \A j \in 1 .. n : d[j].seq <= m
      BY <1>3, <1>8, <2>3 DEF Among, Given
    <3> QED BY <1>7, <3>1, <3>2
  <2> QED BY <1>10, <1>11, <2>5, <2>6, <2>7 DEF PortOrder
<1>14. PortAccounts(o)' /\ (faults' = 0 => PortOrder(o)')
  <2>1. WayTo(o)' = WayTo(o)
    <3>1. pendRecv'[o] = pendRecv[o] /\ rx'[o] = rx[o] /\ tx' = tx /\ pendSend' = pendSend
      BY <1>1, <1>2, <1>4 DEF Types
    <3> QED BY <3>1 DEF WayTo
  <2>2. portState'[Other(o)].seq = portState[Other(o)].seq
    BY <1>1, <1>5, <1>11
  <2>3. faults' = faults /\ got'[o] = got[o] /\ unchecked'[o] = unchecked[o] /\ portState'[o] = portState[o] /\ o \in Port
    BY <1>1, <1>4, <1>11
  <2> HIDE DEF o
  <2> QED BY <2>1, <2>2, <2>3, SamePort
<1>15. Ended'
  BY <1>4, NotEnded
<1> QED BY <1>1, <1>12, <1>13, <1>14, <1>15, TestByPortNext

\* A frame that crosses, or is lost, leaves the others in their order; only a
\* veth that misbehaves changes it.
LEMMA VethAccounts ==
  ASSUME TestInv, BufferInv', NEW p \in Port, Carry(p) \/ Misbehave(p) PROVE TestInv'
<1> HIDE DEF Packet, PortState
<1> DEFINE o == Other(p)
<1>1. BufferInv /\ o \in Port /\ o # p /\ Other(o) = p /\ \A q \in Port : q = p \/ q = o
  BY Ports DEF TestInv
<1>2. /\ Types /\ PortAccounts(o) /\ (faults = 0 => PortOrder(o))
  BY <1>1, ByPort, TestByPort
<1>3. PICK i \in 1 .. 2, pkt \in Packet, copies \in 0 .. 2 :
           /\ Cross(p, i, pkt, copies) /\ faults' \in 0 .. MaxFaults
           /\ i \in DOMAIN tx[p] /\ (pkt.intact => pkt = tx[p][i])
           /\ faults' = 0 => faults = 0 /\ i = 1 /\ copies = 1 /\ pkt = tx[p][1]
  BY <1>1, VethCrosses
<1> DEFINE n == Landing(o, copies)
<1>4. /\ pc[p] # "exited" /\ n \in 0 .. copies
      /\ tx' = [tx EXCEPT ![p] = RemoveAt(tx[p], i)]
      /\ rx' = [rx EXCEPT ![o] = @ \o Copies(pkt, n)]
      /\ UNCHANGED <<portState, pendSend, pendRecv, verdict, got, unchecked>>
  <2>1. copies \in Nat
    OBVIOUS
  <2>2. /\ pc[p] # "exited"
        /\ UNCHANGED <<portState, pendSend, pendRecv, verdict, got, unchecked>>
        /\ tx' = [tx EXCEPT ![p] = RemoveAt(tx[p], i)]
    BY <1>1, <1>3, <2>1, Crossing
  <2>3. n \in 0 .. copies
    BY <1>1, <1>3, <2>1, Crossing
  <2>4. rx' = [rx EXCEPT ![o] = @ \o Copies(pkt, n)]
    <3>1. BufferInv /\ Cross(p, i, pkt, copies)
      BY <1>1, <1>3
    <3> QED BY <2>1, <3>1, Crossing, Zenon
  <2> QED BY <2>2, <2>3, <2>4
<1>5. n \in Nat
  BY <1>4
<1> HIDE DEF n
<1> DEFINE a == pendRecv[o]
           b == rx[o]
           t == tx[p]
           e == pendSend[p]
           C == Copies(pkt, n)
           f == First(t, i - 1)
           r == Rest(t, i)
           left == RemoveAt(t, i)
           came == b \o C
<1>6. /\ a \in Seq(Packet) /\ b \in Seq(Packet) /\ t \in Seq(Packet) /\ e \in Seq(Packet)
      /\ C \in Seq(Packet) /\ Len(C) = n /\ \A k \in 1 .. n : C[k] = pkt
      /\ i \in 1 .. Len(t) /\ Len(t) \in Nat
  <2>1. /\ a \in Seq(Packet) /\ b \in Seq(Packet) /\ t \in Seq(Packet) /\ e \in Seq(Packet)
    BY <1>1, Queues
  <2>2. C \in Seq(Packet) /\ Len(C) = n /\ \A k \in 1 .. n : C[k] = pkt
    BY <1>5, Copied
  <2>3. i \in DOMAIN t
    BY <1>3
  <2> HIDE DEF a, b, t, e, C
  <2> QED BY <2>1, <2>2, <2>3, PacketAt
<1>7. /\ f \in Seq(Packet) /\ r \in Seq(Packet) /\ left = f \o r /\ Len(f) = i - 1
      /\ \A k \in 1 .. i - 1 : f[k] = t[k]
      /\ Len(r) = Len(t) - i /\ \A k \in 1 .. Len(t) - i : r[k] = t[i + k]
      /\ left \in Seq(Packet) /\ came \in Seq(Packet)
  <2>1. i - 1 \in 0 .. Len(t) /\ i \in 0 .. Len(t) /\ i \in DOMAIN t
    BY <1>3, <1>6
  <2>2. /\ f \in Seq(Packet) /\ Len(f) = i - 1 /\ \A k \in 1 .. i - 1 : f[k] = t[k]
    BY <1>6, <2>1, Cut, Zenon
  <2>3. /\ r \in Seq(Packet) /\ Len(r) = Len(t) - i
        /\ \A k \in 1 .. Len(t) - i : r[k] = t[i + k]
    BY <1>6, <2>1, Cut, Zenon
  <2>4. left = f \o r /\ left \in Seq(Packet)
    BY <1>6, <2>1, Taking, Zenon
  <2>5. came \in Seq(Packet)
    BY <1>6, JoinedAt, Zenon
  <2> QED BY <2>2, <2>3, <2>4, <2>5
<1>8. pendRecv'[o] = a /\ rx'[o] = came /\ tx'[p] = left /\ pendSend'[p] = e
  BY <1>1, <1>2, <1>4 DEF Types
<1>9. WayTo(o) = a \o b \o t \o e /\ WayTo(o)' = a \o came \o left \o e
  BY <1>1, <1>8 DEF WayTo
<1> DEFINE m == portState[p].seq
<1>10. Among(a, m) /\ Among(b, m) /\ Among(t, m) /\ Among(e, m)
  <2>1. Among(WayTo(o), m)
    BY <1>1, <1>2 DEF PortAccounts
  <2> HIDE DEF m
  <2> QED BY <1>1, <2>1, WayIs, Zenon
<1>11. Among(came, m) /\ Among(left, m)
  <2>1. \A k \in 1 .. Len(t) : Given(t[k], m)
    BY <1>6, <1>10, PacketAt DEF Among
  <2>2. Among(C, m)
    <3>1. DOMAIN C = 1 .. n /\ Given(pkt, m)
      BY <1>3, <1>6, <2>1, PacketAt DEF Given
    <3> HIDE DEF C, m
    <3> QED BY <1>6, <3>1 DEF Among
  <2>3. Among(f, m)
    <3>1. DOMAIN f = 1 .. i - 1 /\ \A k \in 1 .. i - 1 : k \in 1 .. Len(t)
      BY <1>6, <1>7, PacketAt
    <3> HIDE DEF f, t, m
    <3> QED BY <1>7, <2>1, <3>1 DEF Among
  <2>4. Among(r, m)
    <3>1. DOMAIN r = 1 .. Len(t) - i /\ \A k \in 1 .. Len(t) - i : i + k \in 1 .. Len(t)
      BY <1>6, <1>7, PacketAt
    <3> HIDE DEF r, t, m
    <3> QED BY <1>7, <2>1, <3>1 DEF Among
  <2> HIDE DEF C, f, r, m, left, b
  <2> QED BY <1>6, <1>7, <1>10, <2>2, <2>3, <2>4, AmongJoin
<1>12. PortAccounts(o)'
  <2>1. Among(WayTo(o)', m)
    <3> HIDE DEF a, came, left, e, m
    <3>1. Among(a \o came \o left \o e, m)
      <4>1. /\ a \in Seq(Packet) /\ came \in Seq(Packet) /\ left \in Seq(Packet)
            /\ e \in Seq(Packet)
        BY <1>6, <1>7
      <4>2. Among(a, m) /\ Among(came, m) /\ Among(left, m) /\ Among(e, m)
        BY <1>10, <1>11
      <4> QED BY <4>1, <4>2, WayAmong
    <3> QED BY <1>9, <3>1
  <2> QED BY <1>1, <1>2, <1>4, <2>1 DEF PortAccounts, Judged
<1>13. ASSUME faults' = 0 PROVE PortOrder(o)'
  <2> DEFINE l == portState[o].last_received_seq
             u == a \o b
             rest == r \o e
  <2>1. /\ faults = 0 /\ i = 1 /\ copies = 1 /\ pkt = t[1] /\ PortOrder(o) /\ l \in Nat
    <3>1. /\ faults = 0 /\ i = 1 /\ copies = 1 /\ pkt = t[1]
      BY <1>3, <1>13
    <3>2. portState[o] \in PortState
      BY <1>1, Queues
    <3> QED BY <1>2, <3>1, <3>2, StateFields
  <2> DEFINE h == First(t, 1)
  <2>2. h \in Seq(Packet) /\ Len(h) = 1 /\ h[1] = t[1] /\ h \o r = t
    <3>1. 1 \in 0 .. Len(t) /\ r = Rest(t, 1)
      BY <1>6, <2>1
    <3>2. h \in Seq(Packet) /\ Len(h) = 1 /\ \A k \in 1 .. 1 : h[k] = t[k]
      BY <1>6, <3>1, Cut, Zenon
    <3>3. h \o Rest(t, 1) = t
      BY <1>6, <3>1, CutJoined, Zenon
    <3> QED BY <3>1, <3>2, <3>3
  <2>3. left = r
    <3>1. f = <<>>
      <4> HIDE DEF f
      <4>1. Len(f) = 0
        BY <1>7, <2>1
      <4> QED BY <1>7, <4>1, EmptySeq
    <3> HIDE DEF f, r, left
    <3> QED BY <1>7, <3>1, ConcatEmptySeq
  <2>4. u \in Seq(Packet) /\ rest \in Seq(Packet)
    <3> HIDE DEF a, b, r, e
    <3> QED BY <1>6, <1>7, JoinedAt
  <2>5. WayTo(o) = u \o (h \o rest)
    <3>1. WayTo(o) = u \o t \o e
      BY <1>9
    <3> HIDE DEF a, b, t, h, r, e, u
    <3>2. u \o t \o e = u \o (t \o e)
      <4>1. u \in Seq(Packet) /\ t \in Seq(Packet) /\ e \in Seq(Packet)
        BY <1>6, <2>4
      <4> QED BY <4>1, Regrouping
    <3>3. t \o e = h \o rest
      <4>1. (h \o r) \o e = h \o (r \o e)
        <5>1. h \in Seq(Packet) /\ r \in Seq(Packet) /\ e \in Seq(Packet)
          BY <1>6, <1>7, <2>2
        <5> QED BY <5>1, Regrouping
      <4> QED BY <2>2, <4>1
    <3> QED BY <3>1, <3>2, <3>3
  <2>6. Orderly(u \o (h \o rest), l)
    BY <2>1, <2>5 DEF PortOrder
  <2>7. Orderly(WayTo(o)', l)
    <3>1. WayTo(o)' = (a \o (b \o C)) \o r \o e
      BY <1>9, <2>3
    <3>2. a \o (b \o C) = u \o C
      <4> HIDE DEF a, b, C
      <4> QED BY <1>6, Regrouping
    <3>3. CASE n = 0
      <4>1. C = <<>>
        <5> HIDE DEF C
        <5> QED BY <1>6, <3>3, EmptySeq
      <4>2. u \o C = u
        <5> HIDE DEF u, C
        <5> QED BY <2>4, <4>1, ConcatEmptySeq
      <4>3. WayTo(o)' = u \o r \o e
        BY <3>1, <3>2, <4>2
      <4>4. u \o r \o e = u \o rest
        <5> HIDE DEF u, r, e
        <5>1. u \in Seq(Packet) /\ r \in Seq(Packet) /\ e \in Seq(Packet)
          BY <1>6, <1>7, <2>4
        <5> QED BY <5>1, Regrouping
      <4>5. Orderly(u \o rest, l)
        <5> HIDE DEF u, h, rest, l
        <5> QED BY <2>1, <2>2, <2>4, <2>6, OrderlyWithout
      <4> QED BY <4>3, <4>4, <4>5
    <3>4. CASE n # 0
      <4>1. n = 1
        BY <1>4, <2>1, <3>4
      <4>2. C = h
        <5>1. C = [k \in 1 .. 1 |-> pkt]
          BY <4>1 DEF Copies
        <5>2. h = [k \in 1 .. 1 |-> h[k]]
          <6> HIDE DEF h
          <6> QED BY <2>2
        <5>3. \A k \in 1 .. 1 : h[k] = pkt
          BY <2>1, <2>2
        <5> HIDE DEF h, C
        <5> QED BY <5>1, <5>2, <5>3
      <4>3. WayTo(o)' = (u \o h) \o r \o e
        BY <3>1, <3>2, <4>2
      <4>4. (u \o h) \o r \o e = u \o (h \o rest)
        <5> HIDE DEF u, h, r, e
        <5> DEFINE v == u \o h
        <5>1. v \in Seq(Packet)
          BY <2>2, <2>4, JoinedAt
        <5>2. v \o r \o e = v \o rest
          <6> HIDE DEF v
          <6> QED BY <1>6, <1>7, <5>1, Regrouping
        <5>3. (u \o h) \o rest = u \o (h \o rest)
          <6> HIDE DEF rest
          <6> QED BY <2>2, <2>4, Regrouping
        <5> QED BY <5>2, <5>3
      <4> QED BY <2>6, <4>3, <4>4
    <3> QED BY <3>3, <3>4
  <2> QED BY <1>4, <2>1, <2>7 DEF PortOrder
<1>14. PortAccounts(p)' /\ (faults' = 0 => PortOrder(p)')
  <2>1. WayTo(p)' = WayTo(p)
    <3>1. /\ pendRecv'[p] = pendRecv[p] /\ rx'[p] = rx[p] /\ tx'[o] = tx[o]
          /\ pendSend'[o] = pendSend[o]
      BY <1>1, <1>2, <1>4 DEF Types
    <3> QED BY <3>1 DEF WayTo
  <2>2. PortAccounts(p)' /\ (faults = 0 => PortOrder(p)')
    BY <1>4, <2>1, SamePort
  <2> QED BY <1>3, <2>2
<1>15. Ended'
  BY <1>4, NotEnded
<1> QED BY <1>1, <1>12, <1>13, <1>14, <1>15, TestByPortNext

LEMMA TestNext == TestInv /\ [Next]_vars => TestInv'
<1> SUFFICES ASSUME TestInv, [Next]_vars PROVE TestInv'
  OBVIOUS
<1>1. BufferInv'
  BY BuffersNext DEF TestInv
<1>2. ASSUME NEW p \in Port, Thread(p) PROVE TestInv'
  <2>1. CASE \/ InitialFill(p) \/ ReadTime(p) \/ CheckDone(p) \/ Service(p) \/ Refill(p)
    BY <1>1, <2>1, StillSteps
  <2>2. CASE TryRecv(p)
    BY <1>1, <2>2, TryRecvAccounts
  <2>3. CASE TestReceive(p)
    BY <1>1, <2>3, TestReceiveAccounts
  <2>4. CASE TestTransmit(p)
    BY <1>1, <2>4, TestTransmitAccounts
  <2>5. CASE TrySend(p)
    BY <1>1, <2>5, TrySendAccounts
  <2> QED BY <1>2, <2>1, <2>2, <2>3, <2>4, <2>5 DEF Thread
<1>3. ASSUME NEW p \in Port, Carry(p) \/ Misbehave(p) PROVE TestInv'
  BY <1>1, <1>3, VethAccounts
<1>4. CASE Tick \/ Finalize \/ UNCHANGED vars
  BY <1>1, <1>4, TickFinalize
<1> QED BY <1>2, <1>3, <1>4, Zenon DEF Next

\* The counters of PortState mean what finalize takes them to mean, and
\* without faults of the veth all that is on the way is in order.
THEOREM TestInvariant == Spec => []TestInv
BY TestStart, TestNext, PTL DEF Spec

\* Only damaged packets with a number not given out escape the counters: of
\* the others, while a counter is zero what it complains of did not happen.
THEOREM CountersAccount == Spec => []Accounts
<1>1. TestInv => Accounts
  BY DEF TestInv
<1> QED BY <1>1, TestInvariant, PTL

\* Frames that are merely dropped never make the test complain of the order,
\* the content or the repetition of the others.
THEOREM NoFalseAlarms == Spec => []NoFalseAlarm
<1>1. TestInv => NoFalseAlarm
  BY DEF TestInv
<1> QED BY <1>1, TestInvariant, PTL

\* Rising numbers from 2 .. n + 1, n of them, are all of these.
LEMMA AllNumbers ==
  ASSUME NEW n \in Nat, NEW s \in Seq(Packet), Len(s) = n, Rising(s),
         \A i \in DOMAIN s : s[i].seq \in 2 .. n + 1
  PROVE  \A k \in 1 .. n : s[k].seq = k + 1
<1>1. DOMAIN s = 1 .. n /\ \A k \in 1 .. n : s[k].seq \in 2 .. n + 1
  BY PacketAt
<1> DEFINE x(k) == s[k].seq
<1>2. \A k \in 1 .. n : x(k) \in 2 .. n + 1
  BY <1>1
<1>3. \A i, j \in 1 .. n : i < j => x(i) < x(j)
  BY <1>1 DEF Rising
<1> HIDE DEF x
<1> DEFINE Low == {k \in 0 .. n : k # 0 /\ x(k) < k + 1}
           High == {k \in 0 .. n : k # n /\ x(n - k) > (n - k) + 1}
<1>4. Low = {}
  <2>1. 0 \notin Low
    OBVIOUS
  <2>2. ASSUME NEW k \in 1 .. n, k - 1 \notin Low PROVE k \notin Low
    <3>1. CASE k = 1
      BY <1>2, <3>1
    <3>2. CASE k # 1
      <4>1. k - 1 \in 1 .. n /\ k - 1 \in 0 .. n /\ k - 1 < k
        BY <3>2
      <4>2. x(k - 1) < x(k) /\ x(k - 1) \in Nat /\ x(k) \in Nat /\ ~(x(k - 1) < (k - 1) + 1)
        BY <1>2, <1>3, <2>2, <4>1
      <4> QED BY <4>2
    <3> QED BY <3>1, <3>2
  <2>3. Low \in SUBSET (0 .. n)
    OBVIOUS
  <2> HIDE DEF Low
  <2> QED BY <2>1, <2>2, <2>3, Counting
<1>5. High = {}
  <2>1. 0 \notin High
    BY <1>2
  <2>2. ASSUME NEW k \in 1 .. n, k - 1 \notin High PROVE k \notin High
    <3>1. CASE k = n
      BY <3>1
    <3>2. CASE k # n
      <4>1. /\ n - k \in 1 .. n /\ n - (k - 1) \in 1 .. n /\ n - k < n - (k - 1)
            /\ k - 1 \in 0 .. n /\ k - 1 # n
        BY <3>2
      <4>2. /\ x(n - k) < x(n - (k - 1)) /\ x(n - k) \in Nat /\ x(n - (k - 1)) \in Nat
        BY <1>2, <1>3, <4>1
      <4>3. ~(x(n - (k - 1)) > (n - (k - 1)) + 1)
        BY <2>2, <4>1
      <4> QED BY <4>2, <4>3
    <3> QED BY <3>1, <3>2
  <2>3. High \in SUBSET (0 .. n)
    OBVIOUS
  <2> HIDE DEF High
  <2> QED BY <2>1, <2>2, <2>3, Counting
<1>6. ASSUME NEW k \in 1 .. n PROVE x(k) = k + 1
  <2>1. ~(x(k) < k + 1)
    BY <1>4
  <2>2. ~(x(k) > k + 1)
    <3>1. n - k \in 0 .. n /\ n - k # n /\ n - (n - k) = k
      OBVIOUS
    <3>2. n - k \notin High
      BY <1>5
    <3>3. ~(x(n - (n - k)) > (n - (n - k)) + 1)
      BY <3>1, <3>2
    <3> QED BY <3>1, <3>3
  <2> QED BY <1>2, <2>1, <2>2
<1> QED BY <1>6 DEF x

\* A test that passes was handed as many packets as were sent, in order, and
\* only damaged ones without a hash are among them; without such a packet it
\* was handed every packet once, undamaged.
THEOREM VerdictIsSound == Spec => []VerdictSound
<1>1. TestInv => VerdictSound
  <2> DEFINE Exact == [k \in 1 .. Total |-> [seq |-> k + 1, intact |-> TRUE]]
  <2> SUFFICES ASSUME TestInv, verdict = "passed", NEW p \in Port
               PROVE  /\ Len(got[p]) = Total /\ Rising(got[p])
                      /\ \A i \in DOMAIN got[p] : i \in unchecked[p] \/ got[p][i].intact
                      /\ unchecked[p] = {} => got[p] = Exact
    BY DEF VerdictSound
  <2> DEFINE o == Other(p)
             g == got[p]
  <2>1. /\ BufferInv /\ o \in Port /\ Other(o) = p /\ Passed /\ PortAccounts(p)
        /\ PortAccounts(o)
    BY Ports, TestByPort DEF Ended
  <2>2. /\ portState[o].transmitted = Total /\ portState[p].received = Total
        /\ portState[p].bad_hash = 0 /\ portState[p].out_of_order = 0
    BY <2>1 DEF Passed, CountsAgree
  <2>3. /\ g \in Seq(Packet) /\ Len(g) = Total /\ Rising(g)
        /\ \A i \in DOMAIN g : i \notin unchecked[p] =>
             g[i].seq \in 2 .. Total + 1 /\ g[i].intact
    <3>1. g \in Seq(Packet)
      BY <2>1, Queues
    <3> QED BY <2>1, <2>2, <3>1 DEF PortAccounts, Judged
  <2> HIDE DEF g
  <2>4. ASSUME unchecked[p] = {} PROVE g = Exact
    <3>1. \A k \in 1 .. Total : g[k].seq = k + 1
      BY <2>3, <2>4, AllNumbers, Constants
    <3>2. DOMAIN g = 1 .. Total
      BY <2>3, PacketAt
    <3>3. ASSUME NEW k \in 1 .. Total PROVE g[k] = [seq |-> k + 1, intact |-> TRUE]
      <4>1. g[k] \in Packet
        <5> HIDE DEF Packet
        <5> QED BY <2>3, <3>2
      <4>2. g[k].intact = TRUE /\ g[k].seq = k + 1
        BY <2>3, <2>4, <3>1, <3>2, <4>1 DEF Packet
      <4> QED BY <4>1, <4>2 DEF Packet
    <3>4. g = [k \in 1 .. Total |-> g[k]]
      <4> HIDE DEF Packet
      <4> QED BY <2>3, <3>2
    <3> QED BY <3>3, <3>4
  <2> HIDE DEF Exact
  <2> QED BY <2>3, <2>4 DEF g
<1> QED BY <1>1, TestInvariant, PTL
=============================================================================
