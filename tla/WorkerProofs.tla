---------------------------- MODULE WorkerProofs ----------------------------
(***************************************************************************)
(* Worker, proved for every number of buffers, every ring and batch size   *)
(* and every fill threshold the programs may have: what each link was      *)
(* given and not given back is what fq_deficit says.                       *)
(***************************************************************************)
EXTENDS Worker, DatapathProofs

-----------------------------------------------------------------------------
(* What the programs' constants are.                                       *)

LEMMA Constants ==
  /\ Link = {0, 1} /\ Vec = {"bufs"} /\ Deque = Link
  /\ RingSize \in Nat /\ RingSize >= 1 /\ PendingLen \in Nat
  /\ InitialFill \in Nat /\ InitialFill >= 1
  /\ FillThreshold \in Nat /\ FillThreshold >= 1
  /\ StartBufs \in Nat /\ BatchSize \in Nat /\ BatchSize >= 1
  /\ \A p \in Program \ Workers : BufNum[p] \in Nat
<1>1. Cardinality(Buf) \in Nat
  BY FS_CardinalityType, DatapathAssumption
<1>2. RingSize \in Nat /\ RingSize >= 1 /\ PendingLen \in Nat /\ MaxBatch \in Nat
  BY DatapathAssumption
<1>3. Least(MaxBatch, RingSize) \in Nat
  BY <1>2, LeastFacts
<1>4. InitialFill \in Nat /\ InitialFill >= 1
  BY <1>2, WorkerAssumption
<1>5. FillThreshold \in Nat /\ FillThreshold >= 1
  BY <1>4, WorkerAssumption
<1>6. StartBufs \in Nat
  BY <1>2, WorkerAssumption
<1>7. BatchSize \in Nat /\ BatchSize >= 1
  BY <1>3, WorkerAssumption
<1>8. ASSUME NEW p \in Program \ Workers PROVE BufNum[p] \in Nat
  <2>1. Least(MaxBatch, Cardinality(Buf)) \in Nat
    BY <1>1, <1>2, LeastFacts
  <2> QED BY <2>1, WorkerAssumption
<1> QED BY <1>2, <1>4, <1>5, <1>6, <1>7, <1>8, WorkerAssumption

\* Every program knows how many buffers to give to a link.
LEMMA WantedIsNat == ASSUME program \in Program PROVE Wanted \in Nat
<1>1. CASE program \in Workers
  BY <1>1, Constants DEF Wanted, Workers
<1>2. CASE program \notin Workers
  <2>1. BufNum[program] \in Nat /\ RingSize \in Nat
    BY <1>2, Constants
  <2>2. BufNum[program] \div 2 \in Nat
    BY <2>1
  <2>3. TwoLinkFill \in Nat /\ EchoFill \in Nat /\ DumpFill \in Nat
    BY <2>1, <2>2, LeastFacts DEF TwoLinkFill, EchoFill, DumpFill
  <2>4. program \in {"2link", "1link", "dump"}
    BY <1>2, WorkerAssumption DEF Workers, Forwarders
  <2> QED BY <1>2, <2>3, <2>4 DEF Wanted
<1> QED BY <1>1, <1>2

\* The order in which the links are served.
LEMMA LinksServed ==
  ASSUME pos \in Links
  PROVE  /\ Links \subseteq Link /\ Links \in {{0, 1}, {0}}
         /\ pos \in Link /\ NextLink(pos) \in Links
         /\ NextLink(pos) # 0 => pos = 0 /\ NextLink(pos) = 1 /\ Links = {0, 1}
         /\ NextLink(pos) = 0 => \A l \in Links : l <= pos
BY Constants DEF Links, NextLink, Other

-----------------------------------------------------------------------------
(* What calls do to the buffers on a link's receive side.                  *)

\* The counts after a move.
LEMMA CountAfter ==
  ASSUME HeldType, NEW p \in Place, NEW r \in Place, p # r, NEW n \in Nat,
         Moved(p, r, n), NEW q \in Place
  PROVE  Count(q)' = IF q = p THEN Count(q) - n
                     ELSE IF q = r THEN Count(q) + n ELSE Count(q)
<1>1. q # p /\ q # r => Count(q)' = Count(q)
  BY DEF Moved, Count
<1> QED BY <1>1 DEF Moved

ReceiveSide(l) == {Fq(l), NicRx(l), Rx(l)}

\* A move that leaves the receive sides alone.
LEMMA SupplySame ==
  ASSUME HeldType, NEW p \in Place, NEW r \in Place, p # r, NEW n \in Nat,
         Moved(p, r, n), NEW l \in Link,
         p \notin ReceiveSide(l), r \notin ReceiveSide(l)
  PROVE  Supply(l)' = Supply(l)
<1>1. /\ Count(Fq(l))' = Count(Fq(l)) /\ Count(NicRx(l))' = Count(NicRx(l))
      /\ Count(Rx(l))' = Count(Rx(l))
  BY CountAfter, Places DEF ReceiveSide
<1> QED BY <1>1 DEF Supply

LEMMA SupplyNat == ASSUME HeldOK, NEW l \in Link PROVE Supply(l) \in Nat
BY Counts DEF Supply

\* fill adds to one link what reserve granted.
LEMMA FillSupply ==
  ASSUME DpInv, NEW l \in Link, NEW v \in Vec, NEW b \in Nat, Fill(l, v, b)
  PROVE  /\ Filled(l, v, b) \in Nat /\ Filled(l, v, b) <= b
         /\ Supply(l)' = Supply(l) + Filled(l, v, b)
         /\ \A k \in Link \ {l} : Supply(k)' = Supply(k)
<1> DEFINE n == Filled(l, v, b)
<1>1. HeldOK /\ HeldType
  BY InvParts DEF HeldOK
<1>2. V(v) \in Place /\ Fq(l) \in Place /\ V(v) # Fq(l)
  BY Places DEF V, Fq
<1>3. n \in Nat /\ n <= b /\ Moved(V(v), Fq(l), n)
  BY <1>1, FillMoves
<1>4. Supply(l)' = Supply(l) + n
  <2>1. /\ Count(Fq(l))' = Count(Fq(l)) + n
        /\ Count(NicRx(l))' = Count(NicRx(l)) /\ Count(Rx(l))' = Count(Rx(l))
    BY <1>1, <1>2, <1>3, CountAfter, Places DEF V, Fq, NicRx, Rx
  <2>2. /\ Count(Fq(l)) \in Nat /\ Count(NicRx(l)) \in Nat /\ Count(Rx(l)) \in Nat
    BY <1>1, Counts
  <2> QED BY <1>3, <2>1, <2>2 DEF Supply
<1>5. ASSUME NEW k \in Link \ {l} PROVE Supply(k)' = Supply(k)
  <2>1. V(v) \notin ReceiveSide(k) /\ Fq(l) \notin ReceiveSide(k)
    BY DEF ReceiveSide, V, Fq, NicRx, Rx
  <2> QED BY <1>1, <1>2, <1>3, <2>1, SupplySame
<1> QED BY <1>3, <1>4, <1>5

\* try_recv takes from one link what it reports.
LEMMA RecvSupply ==
  ASSUME DpInv, NEW l \in Link, NEW d \in Deque, NEW b \in Nat, TryRecv(l, d, b)
  PROVE  /\ Received(l, d, b) \in Nat /\ Received(l, d, b) <= Supply(l)
         /\ Supply(l)' = Supply(l) - Received(l, d, b)
         /\ \A k \in Link \ {l} : Supply(k)' = Supply(k)
<1> DEFINE n == Received(l, d, b)
<1>1. HeldOK /\ HeldType
  BY InvParts DEF HeldOK
<1>2. Rx(l) \in Place /\ D(d) \in Place /\ Rx(l) # D(d)
  BY Places DEF Rx, D
<1>3. /\ Count(Fq(l)) \in Nat /\ Count(NicRx(l)) \in Nat /\ Count(Rx(l)) \in Nat
  BY <1>1, Counts
<1>4. n \in Nat /\ n <= Count(Rx(l)) /\ Moved(Rx(l), D(d), n)
  BY <1>1, <1>3, RecvMoves
<1>5. Supply(l)' = Supply(l) - n /\ n <= Supply(l)
  <2>1. /\ Count(Rx(l))' = Count(Rx(l)) - n
        /\ Count(NicRx(l))' = Count(NicRx(l)) /\ Count(Fq(l))' = Count(Fq(l))
    BY <1>1, <1>2, <1>4, CountAfter, Places DEF D, Fq, NicRx, Rx
  <2> QED BY <1>3, <1>4, <2>1 DEF Supply
<1>6. ASSUME NEW k \in Link \ {l} PROVE Supply(k)' = Supply(k)
  <2>1. D(d) \notin ReceiveSide(k) /\ Rx(l) \notin ReceiveSide(k)
    BY DEF ReceiveSide, D, Fq, NicRx, Rx
  <2> QED BY <1>1, <1>2, <1>4, <2>1, SupplySame
<1> QED BY <1>4, <1>5, <1>6

\* The calls that do not touch a receive side.
LEMMA SupplyKept ==
  ASSUME DpInv, NEW l \in Link, NEW d \in Deque, NEW v \in Vec, NEW b \in Nat,
         \/ Service(l, v, b) \/ TrySend(l, d, b) \/ Discard(d, v)
         \/ PoolGet(v, b) \/ UNCHANGED held,
         NEW k \in Link
  PROVE  Supply(k)' = Supply(k)
<1>1. HeldOK /\ HeldType
  BY InvParts DEF HeldOK
<1>2. /\ V(v) \in Place /\ D(d) \in Place /\ Cq(l) \in Place /\ Tx(l) \in Place
      /\ Pool \in Place
      /\ V(v) # D(d) /\ V(v) # Cq(l) /\ D(d) # Tx(l) /\ V(v) # Pool
  BY Places DEF V, D, Cq, Tx, Pool
<1>3. /\ V(v) \notin ReceiveSide(k) /\ D(d) \notin ReceiveSide(k)
      /\ Cq(l) \notin ReceiveSide(k) /\ Tx(l) \notin ReceiveSide(k)
      /\ Pool \notin ReceiveSide(k)
  BY DEF ReceiveSide, V, D, Cq, Tx, Pool, Fq, NicRx, Rx
<1>4. CASE Service(l, v, b)
  <2>1. Serviced(l, v, b) \in Nat /\ Moved(Cq(l), V(v), Serviced(l, v, b))
    BY <1>1, <1>4, ServiceMoves
  <2> QED BY <1>1, <1>2, <1>3, <2>1, SupplySame
<1>5. CASE TrySend(l, d, b)
  <2>1. Sent(l, d, b) \in Nat /\ Moved(D(d), Tx(l), Sent(l, d, b))
    BY <1>1, <1>5, SendMoves
  <2> QED BY <1>1, <1>2, <1>3, <2>1, SupplySame
<1>6. CASE Discard(d, v)
  <2>1. Count(D(d)) \in Nat /\ Moved(D(d), V(v), Count(D(d)))
    BY <1>1, <1>6, DiscardMoves
  <2> QED BY <1>1, <1>2, <1>3, <2>1, SupplySame
<1>7. CASE PoolGet(v, b)
  <2>1. Least(b, Count(Pool)) \in Nat /\ Moved(Pool, V(v), Least(b, Count(Pool)))
    BY <1>1, <1>7, PoolMoves
  <2> QED BY <1>1, <1>2, <1>3, <2>1, SupplySame
<1>8. CASE UNCHANGED held
  BY <1>8 DEF Supply, Count
<1> QED BY <1>4, <1>5, <1>6, <1>7, <1>8

\* The driver moves buffers from the fill ring through the NIC to the RX ring:
\* the receive side keeps them all.
LEMMA KernelSupply ==
  ASSUME DpInv, NEW l \in Link, Kernel(l), NEW k \in Link
  PROVE  Supply(k)' = Supply(k)
<1>1. HeldOK /\ HeldType
  BY InvParts DEF HeldOK
<1>2. /\ Fq(l) \in Place /\ NicRx(l) \in Place /\ Rx(l) \in Place
      /\ Tx(l) \in Place /\ NicTx(l) \in Place /\ Cq(l) \in Place
      /\ Fq(l) # NicRx(l) /\ NicRx(l) # Rx(l) /\ Fq(l) # Rx(l)
      /\ Tx(l) # NicTx(l) /\ NicTx(l) # Cq(l)
  BY Places DEF Fq, NicRx, Rx, Tx, NicTx, Cq
<1>3. Count(Fq(l)) \in Nat /\ Count(NicRx(l)) \in Nat /\ Count(Rx(l)) \in Nat
  BY <1>1, Counts
<1>4. k # l => /\ Fq(l) \notin ReceiveSide(k) /\ NicRx(l) \notin ReceiveSide(k)
               /\ Rx(l) \notin ReceiveSide(k)
  BY DEF ReceiveSide, Fq, NicRx, Rx
<1>5. /\ Tx(l) \notin ReceiveSide(k) /\ NicTx(l) \notin ReceiveSide(k)
      /\ Cq(l) \notin ReceiveSide(k)
  BY DEF ReceiveSide, Fq, NicRx, Rx, Tx, NicTx, Cq
<1>6. CASE KernelTakeFill(l)
  <2>1. Moved(Fq(l), NicRx(l), 1)
    BY <1>1, <1>6, KernelMoves
  <2>2. CASE k = l
    <3>1. /\ Count(Fq(l))' = Count(Fq(l)) - 1
          /\ Count(NicRx(l))' = Count(NicRx(l)) + 1 /\ Count(Rx(l))' = Count(Rx(l))
      BY <1>1, <1>2, <2>1, CountAfter
    <3> QED BY <1>3, <2>2, <3>1 DEF Supply
  <2> QED BY <1>1, <1>2, <1>4, <2>1, <2>2, SupplySame
<1>7. CASE \E p \in Arriving[l] : KernelReceive(l, p)
  <2>1. Moved(NicRx(l), Rx(l), 1)
    BY <1>1, <1>7, KernelMoves
  <2>2. CASE k = l
    <3>1. /\ Count(NicRx(l))' = Count(NicRx(l)) - 1
          /\ Count(Rx(l))' = Count(Rx(l)) + 1 /\ Count(Fq(l))' = Count(Fq(l))
      BY <1>1, <1>2, <2>1, CountAfter
    <3> QED BY <1>3, <2>2, <3>1 DEF Supply
  <2> QED BY <1>1, <1>2, <1>4, <2>1, <2>2, SupplySame
<1>8. CASE KernelTakeTx(l)
  <2>1. Moved(Tx(l), NicTx(l), 1)
    BY <1>1, <1>8, KernelMoves
  <2> QED BY <1>1, <1>2, <1>5, <2>1, SupplySame
<1>9. CASE KernelSend(l)
  <2>1. Moved(NicTx(l), Cq(l), 1)
    BY <1>1, <1>9, KernelMoves
  <2> QED BY <1>1, <1>2, <1>5, <2>1, SupplySame
<1>10. CASE KernelRxSleep(l) \/ KernelTxSleep(l)
  BY <1>10 DEF KernelRxSleep, KernelTxSleep, Supply, Count
<1> QED BY <1>6, <1>7, <1>8, <1>9, <1>10 DEF Kernel

-----------------------------------------------------------------------------
(* The invariant.  The type invariant and the exact deficit need each      *)
(* other: a deficit is no more than Wanted because it is what the receive  *)
(* side lacks.                                                             *)

Running == {"command", "tick", "service", "receive", "wake", "swap", "hand_on",
            "kick", "refill"}
AnyPc == {"get", "initial_fill", "exited", "panicked"} \cup Running

ProgramOK ==
  /\ program \in Program /\ pc \in AnyPc /\ pos \in Links
  /\ deficit \in [Link -> 0 .. Wanted]

\* While the links get their first buffers, the ones behind `pos' have theirs
\* and the others nothing.
LinksFilled ==
  Starting =>
    /\ pc = "get" => pos = 0
    /\ \A l \in Link : deficit[l] = 0
    /\ \A l \in Links : Supply(l) = IF l < pos THEN Wanted ELSE 0

\* The inductive invariant.
WorkerInv == DpInv /\ FramesFull /\ WorkerTypeOK /\ DeficitExact /\ LinksFilled

LEMMA WorkerParts ==
  /\ WorkerInv <=> DpInv /\ FramesFull /\ ProgramOK /\ DeficitExact /\ LinksFilled
  /\ WorkerInv' <=>
       DpInv' /\ FramesFull' /\ ProgramOK' /\ DeficitExact' /\ LinksFilled'
BY DEF WorkerInv, WorkerTypeOK, DpInv, ProgramOK, AnyPc, Running

LEMMA LoopStartRuns ==
  ASSUME program \in Program, NEW l
  PROVE  LoopStart(l) \in Running
<1>1. program \in {"multicore", "rxdrop", "2link", "1link", "dump"}
  BY WorkerAssumption DEF Forwarders
<1> QED BY <1>1 DEF LoopStart, Running

\* The calls of the programs keep what Datapath promises.
LEMMA CallInv ==
  ASSUME DpInv, FramesFull, NEW l \in Link, NEW d \in Deque, NEW b \in Nat,
         \/ Fill(l, "bufs", b) \/ Service(l, "bufs", b)
         \/ TryRecv(l, d, b) \/ TrySend(l, d, b)
         \/ WakeupIfRequired(l) \/ \E ok \in BOOLEAN : Wake(l, ok)
         \/ PoolGet("bufs", b) \/ Discard(d, "bufs") \/ UNCHANGED dpVars
  PROVE  DpInv' /\ FramesFull'
<1>1. "bufs" \in Vec
  BY Constants
<1>2. CASE Fill(l, "bufs", b) \/ Service(l, "bufs", b)
  BY <1>1, <1>2, UmemInv, MovesFull, ServiceFull
<1>3. CASE TryRecv(l, d, b) \/ TrySend(l, d, b)
  BY <1>3, SocketInv, MovesFull
<1>4. CASE WakeupIfRequired(l) \/ \E ok \in BOOLEAN : Wake(l, ok)
  BY <1>4, WakeupInv, WakeInv, MovesFull
<1>5. CASE PoolGet("bufs", b) \/ Discard(d, "bufs")
  BY <1>1, <1>5, PoolInv, QueueInv, MovesFull
<1>6. CASE UNCHANGED dpVars
  <2>1. HeldOK /\ RestOK
    BY InvParts
  <2>2. HeldOK' /\ RestOK'
    BY <1>6, <2>1, HeldSame DEF dpVars, RestOK
  <2> QED BY <1>6, <2>2, InvParts, FullSame DEF dpVars
<1> QED BY <1>2, <1>3, <1>4, <1>5, <1>6

\* A step of the loop that gives a link no buffer and takes none.
LEMMA LedgerKept ==
  ASSUME WorkerInv, pc \in Running, pc' \in AnyPc, ~Starting', pos' \in Links,
         UNCHANGED <<program, deficit>>, DpInv', FramesFull',
         \A k \in Link : Supply(k)' = Supply(k)
  PROVE  WorkerInv'
<1>1. ProgramOK /\ DeficitExact /\ Links \subseteq Link
  BY WorkerParts, LinksServed DEF ProgramOK
<1>2. Links' = Links /\ Wanted' = Wanted
  BY DEF Links, Wanted, TwoLinkFill, EchoFill, DumpFill
<1>3. ProgramOK'
  BY <1>1, <1>2 DEF ProgramOK
<1>4. ~Starting /\ pc # "panicked"
  BY DEF Starting, Running
<1>5. DeficitExact'
  BY <1>1, <1>2, <1>4 DEF DeficitExact
<1>6. LinksFilled'
  BY DEF LinksFilled
<1> QED BY <1>3, <1>5, <1>6, WorkerParts

LEMMA InLoop ==
  ASSUME WorkerInv
  PROVE  /\ pos \in Link /\ pos \in Deque /\ OutLink(pos) \in Link
         /\ BatchSize \in Nat /\ DpInv /\ FramesFull
         /\ pos \in Links /\ program \in Program
BY WorkerParts, LinksServed, Constants DEF ProgramOK, OutLink, Other

\* The steps of the loops that leave the receive sides alone.
LEMMA QuietSteps ==
  ASSUME WorkerInv,
         \/ NoExit("service") \/ NoExit("receive") \/ Exit \/ Tick \/ LastTick
         \/ ServiceCq \/ Poll \/ Forward \/ Kick \/ HandBack
  PROVE  WorkerInv'
<1>1. /\ pos \in Link /\ pos \in Deque /\ OutLink(pos) \in Link
      /\ BatchSize \in Nat /\ DpInv /\ FramesFull /\ "bufs" \in Vec /\ pos \in Links
  BY InLoop, Constants
<1>2. /\ pc \in Running /\ pc' \in AnyPc /\ pc' \notin {"get", "initial_fill"}
      /\ UNCHANGED <<program, pos, deficit>>
  BY DEF NoExit, Exit, Tick, LastTick, ServiceCq, Poll, WakeRx, Forward, Kick,
         HandBack, Running, AnyPc
<1>3. \/ UNCHANGED dpVars \/ Service(pos, "bufs", BatchSize)
      \/ \E ok \in BOOLEAN : Wake(pos, ok)
      \/ TrySend(OutLink(pos), pos, BatchSize)
      \/ WakeupIfRequired(OutLink(pos)) \/ Discard(pos, "bufs")
  BY DEF NoExit, Exit, Tick, LastTick, ServiceCq, Poll, WakeRx, Forward, Kick, HandBack
<1>4. DpInv' /\ FramesFull'
  BY <1>1, <1>3, CallInv
<1>5. ASSUME NEW k \in Link PROVE Supply(k)' = Supply(k)
  <2>1. \/ UNCHANGED held \/ Service(pos, "bufs", BatchSize)
        \/ TrySend(OutLink(pos), pos, BatchSize) \/ Discard(pos, "bufs")
    BY <1>3 DEF dpVars, Wake, WakeupIfRequired
  <2> QED BY <1>1, <2>1, SupplyKept
<1>6. ~Starting' /\ pos' \in Links
  BY <1>1, <1>2 DEF Starting
<1> QED BY <1>2, <1>4, <1>5, <1>6, LedgerKept

\* swap_macs gives the frames of a deque, which have a packet, another one.
LEMMA SwapIsRewrite ==
  ASSUME WorkerInv, SwapMacs
  PROVE  \E frame \in [At(D(pos)) -> Packet] : Rewrite(pos, frame)
<1>1. pos \in Deque /\ FramesFull
  BY InLoop
<1>2. \A b \in At(D(pos)) : Swap[data[b]] \in Packet
  BY <1>1, FramePlace, WorkerAssumption DEF FramesFull
<1> QED BY <1>2 DEF SwapMacs

LEMMA SwapStep == ASSUME WorkerInv, SwapMacs PROVE WorkerInv'
<1>1. pos \in Deque /\ DpInv /\ FramesFull /\ pos \in Links
  BY InLoop
<1>2. /\ pc \in Running /\ pc' \in AnyPc /\ ~Starting'
      /\ UNCHANGED <<program, pos, deficit>>
  BY DEF SwapMacs, Running, AnyPc, Starting
<1>3. DpInv' /\ FramesFull'
  BY <1>1, SwapIsRewrite, RewriteInv, RewriteFull
<1>4. \A k \in Link : Supply(k)' = Supply(k)
  BY DEF SwapMacs, Rewrite, Supply, Count
<1> QED BY <1>1, <1>2, <1>3, <1>4, LedgerKept

\* A step that changes what one link has and what it is owed by the same number.
LEMMA LedgerMoved ==
  ASSUME WorkerInv, pc \in Running, pc' \in Running, pos' \in Links,
         UNCHANGED program, NEW n \in Int, NEW l \in Links,
         deficit' = [deficit EXCEPT ![l] = deficit[l] - n], deficit[l] - n \in Nat,
         Supply(l)' = Supply(l) + n, Supply(l) + n \in Nat,
         \A k \in Link \ {l} : Supply(k)' = Supply(k), DpInv', FramesFull'
  PROVE  WorkerInv'
<1>1. /\ ProgramOK /\ DeficitExact /\ Links \subseteq Link /\ HeldOK
      /\ Wanted \in Nat
  BY WorkerParts, LinksServed, InvParts, WantedIsNat DEF ProgramOK
<1>2. Links' = Links /\ Wanted' = Wanted
  BY DEF Links, Wanted, TwoLinkFill, EchoFill, DumpFill
<1>3. ~Starting /\ pc # "panicked" /\ ~Starting'
  BY DEF Starting, Running
<1>4. deficit[l] \in Nat /\ Supply(l) \in Nat /\ Supply(l) + deficit[l] = Wanted
  BY <1>1, <1>3, SupplyNat DEF ProgramOK, DeficitExact
<1>5. /\ deficit'[l] = deficit[l] - n
      /\ \A k \in Link \ {l} : deficit'[k] = deficit[k]
  BY <1>1 DEF ProgramOK
<1>6. deficit[l] - n \in 0 .. Wanted
  BY <1>1, <1>4
<1>7. ProgramOK'
  BY <1>1, <1>2, <1>6 DEF ProgramOK, AnyPc
<1>8. DeficitExact'
  <2> SUFFICES ASSUME NEW k \in Links PROVE Supply(k)' + deficit'[k] = Wanted
    BY <1>2 DEF DeficitExact
  <2>1. CASE k = l
    BY <1>4, <1>5, <2>1
  <2>2. CASE k # l
    BY <1>1, <1>3, <1>5, <2>2 DEF DeficitExact
  <2> QED BY <2>1, <2>2
<1>9. LinksFilled'
  BY <1>3 DEF LinksFilled
<1> QED BY <1>7, <1>8, <1>9, WorkerParts

\* What try_recv took is charged.
LEMMA ReceiveStep ==
  ASSUME WorkerInv, NEW then \in {"hand_on", "swap"}, Receive(then)
  PROVE  WorkerInv'
<1>1. /\ pos \in Link /\ pos \in Deque /\ BatchSize \in Nat /\ DpInv /\ FramesFull
      /\ pos \in Links /\ HeldOK
  BY InLoop, InvParts
<1>l. PICK l \in Links : l = pos
  BY <1>1
<1>n. PICK got : got = Received(l, l, BatchSize)
  OBVIOUS
<1>2. /\ pc \in Running /\ pc' \in Running /\ UNCHANGED <<program, pos>>
      /\ TryRecv(l, l, BatchSize)
      /\ deficit' = [deficit EXCEPT ![l] = deficit[l] + got]
  BY <1>l, <1>n DEF Receive, Running, Charge
<1>3. l \in Link /\ l \in Deque
  BY <1>1, <1>l
<1>4. /\ got \in Nat /\ got <= Supply(l) /\ Supply(l)' = Supply(l) - got
      /\ \A k \in Link \ {l} : Supply(k)' = Supply(k)
  BY <1>1, <1>2, <1>3, <1>n, RecvSupply
<1>5. DpInv' /\ FramesFull'
  BY <1>1, <1>2, <1>3, CallInv
<1>6. deficit[l] \in Nat /\ Supply(l) \in Nat
  <2>1. deficit[l] \in 0 .. Wanted
    BY <1>3, WorkerParts DEF ProgramOK
  <2>2. deficit[l] \in Nat
    BY <2>1
  <2>3. Supply(l) \in Nat
    BY <1>1, <1>3, SupplyNat
  <2> QED BY <2>2, <2>3
<1>7. PICK m \in Int : m = 0 - got
  <2>1. 0 - got \in Int
    BY <1>4
  <2> QED BY <2>1
<1>8. /\ deficit[l] - m = deficit[l] + got /\ deficit[l] - m \in Nat
      /\ Supply(l) + m = Supply(l) - got /\ Supply(l) + m \in Nat
  <2>1. ASSUME NEW x \in Nat, NEW y \in Nat, got <= y
        PROVE  /\ x - m = x + got /\ x - m \in Nat
               /\ y + m = y - got /\ y + m \in Nat
    BY <1>4, <1>7, <2>1
  <2> QED BY <1>4, <1>6, <2>1
<1> QED BY <1>1, <1>l, <1>2, <1>4, <1>5, <1>8, LedgerMoved

\* What fill gave is taken off.
LEMMA RefillStep ==
  ASSUME WorkerInv, Refill(FillThreshold) \/ Refill(1)
  PROVE  WorkerInv'
<1>1. /\ pos \in Link /\ pos \in Deque /\ DpInv /\ FramesFull /\ pos \in Links
      /\ HeldOK /\ "bufs" \in Vec /\ program \in Program /\ BatchSize \in Nat
  BY InLoop, InvParts, Constants
<1>l. PICK l \in Links : l = pos
  BY <1>1
<1>2. l \in Link /\ l \in Deque /\ deficit[l] \in Nat /\ Supply(l) \in Nat
  <2>1. deficit[l] \in 0 .. Wanted
    BY <1>1, <1>l, WorkerParts DEF ProgramOK
  <2> QED BY <1>1, <1>l, <2>1, SupplyNat
<1>b. PICK b \in Nat : b = deficit[l]
  BY <1>2
<1>n. PICK n : n = Filled(l, "bufs", b)
  OBVIOUS
<1>3. pc \in Running /\ UNCHANGED program /\ pos' = NextLink(pos)
  BY DEF Refill, Running
<1>4. pos' \in Links
  BY <1>1, <1>3, LinksServed
<1>5. pc' \in Running
  <2>1. pc' = LoopStart(pos')
    BY DEF Refill
  <2> QED BY <1>1, <2>1, LoopStartRuns
<1>6. CASE UNCHANGED <<dpVars, deficit>>
  <2>1. DpInv' /\ FramesFull'
    BY <1>1, <1>6, CallInv
  <2>2. \A k \in Link : Supply(k)' = Supply(k)
    BY <1>6 DEF dpVars, Supply, Count
  <2>3. pc' \in AnyPc /\ ~Starting'
    BY <1>5 DEF AnyPc, Starting, Running
  <2> QED BY <1>3, <1>4, <1>6, <2>1, <2>2, <2>3, LedgerKept
<1>7. CASE Fill(l, "bufs", b) /\ deficit' = [deficit EXCEPT ![l] = deficit[l] - n]
  <2>1. /\ n \in Nat /\ n <= b /\ Supply(l)' = Supply(l) + n
        /\ \A k \in Link \ {l} : Supply(k)' = Supply(k)
    BY <1>1, <1>2, <1>n, <1>7, FillSupply
  <2>2. DpInv' /\ FramesFull'
    BY <1>1, <1>2, <1>7, CallInv
  <2>3. n \in Int /\ deficit[l] - n \in Nat /\ Supply(l) + n \in Nat
    BY <1>2, <1>b, <2>1
  <2> QED BY <1>1, <1>3, <1>4, <1>5, <1>7, <2>1, <2>2, <2>3, LedgerMoved
<1> QED BY <1>l, <1>b, <1>n, <1>6, <1>7 DEF Refill, Repaid

-----------------------------------------------------------------------------
(* Startup, and the kernel.                                                *)

LEMMA GetBufsStep == ASSUME WorkerInv, GetBufs PROVE WorkerInv'
<1>1. /\ pos \in Link /\ pos \in Deque /\ DpInv /\ FramesFull /\ pos \in Links
      /\ program \in Program /\ "bufs" \in Vec
  BY InLoop, Constants
<1>2. PICK n \in Nat : PoolGet("bufs", n)
  <2>1. StartBufs \in Nat /\ (program \notin Workers => BufNum[program] \in Nat)
    BY <1>1, Constants
  <2> QED BY <2>1 DEF GetBufs
<1>3. pc = "get" /\ pc' = "initial_fill" /\ UNCHANGED <<program, pos, deficit>>
  BY DEF GetBufs
<1>4. DpInv' /\ FramesFull'
  BY <1>1, <1>2, CallInv
<1>5. \A k \in Link : Supply(k)' = Supply(k)
  BY <1>1, <1>2, SupplyKept
<1>6. /\ ProgramOK /\ LinksFilled /\ Links' = Links /\ Wanted' = Wanted
      /\ Links \subseteq Link
  BY <1>1, <1>3, WorkerParts, LinksServed DEF Links, Wanted, TwoLinkFill, EchoFill, DumpFill
<1>7. ProgramOK'
  BY <1>3, <1>6 DEF ProgramOK, AnyPc
<1>8. DeficitExact' /\ LinksFilled'
  BY <1>3, <1>5, <1>6 DEF DeficitExact, LinksFilled, Starting
<1> QED BY <1>4, <1>7, <1>8, WorkerParts

\* One link after the other gets all it is to have, or the thread panics.
LEMMA FillLinkStep == ASSUME WorkerInv, FillLink PROVE WorkerInv'
<1>1. /\ pos \in Link /\ pos \in Deque /\ DpInv /\ FramesFull /\ pos \in Links
      /\ program \in Program /\ "bufs" \in Vec /\ Wanted \in Nat
  BY InLoop, Constants, WantedIsNat
<1>l. PICK l \in Links : l = pos
  BY <1>1
<1>w. PICK w \in Nat : w = Wanted
  BY <1>1
<1>n. PICK got : got = Filled(l, "bufs", w)
  OBVIOUS
<1>2. /\ pc = "initial_fill" /\ Fill(l, "bufs", w) /\ pos' = NextLink(pos)
      /\ UNCHANGED <<program, deficit>>
      /\ pc' = IF got # w THEN "panicked"
               ELSE IF pos' # 0 THEN "initial_fill" ELSE LoopStart(0)
  BY <1>l, <1>w, <1>n DEF FillLink
<1>3. l \in Link /\ l \in Deque
  BY <1>1, <1>l
<1>4. /\ got \in Nat /\ Supply(l)' = Supply(l) + got
      /\ \A k \in Link \ {l} : Supply(k)' = Supply(k)
  BY <1>1, <1>2, <1>3, <1>n, FillSupply
<1>5. DpInv' /\ FramesFull'
  BY <1>1, <1>2, <1>3, CallInv
<1>6. /\ ProgramOK /\ LinksFilled /\ Links' = Links /\ Wanted' = Wanted
      /\ Links \subseteq Link /\ pos' \in Links
  BY <1>1, <1>2, WorkerParts, LinksServed DEF Links, Wanted, TwoLinkFill, EchoFill, DumpFill
<1>7. LoopStart(0) \in Running
  BY <1>1, LoopStartRuns
<1>8. ProgramOK'
  <2>1. pc' \in AnyPc
    BY <1>2, <1>7 DEF AnyPc
  <2> QED BY <1>2, <1>6, <2>1 DEF ProgramOK
<1>9. /\ \A k \in Link : deficit'[k] = 0
      /\ \A k \in Links : Supply(k) = IF k < l THEN w ELSE 0
  BY <1>2, <1>6, <1>l, <1>w DEF LinksFilled, Starting
<1>10. Supply(l)' = got
  <2>1. ~ (l < l)
    BY <1>3, Constants
  <2>2. Supply(l) = 0
    BY <1>9, <2>1
  <2> QED BY <1>4, <2>2
<1>11. ASSUME got # w
       PROVE  DeficitExact' /\ LinksFilled'
  <2>1. pc' = "panicked"
    BY <1>2, <1>11
  <2> QED BY <2>1 DEF DeficitExact, LinksFilled, Starting
<1>12. ASSUME got = w /\ pos' # 0
       PROVE  DeficitExact' /\ LinksFilled'
  <2>1. pc' = "initial_fill" /\ l = 0 /\ pos' = 1 /\ Links = {0, 1} /\ Links = Link
    BY <1>1, <1>2, <1>l, <1>12, LinksServed, Constants
  <2>2. Supply(0)' = w
    BY <1>10, <1>12, <2>1
  <2>3. Supply(1)' = 0
    <3>1. ~ (1 < 0)
      OBVIOUS
    <3>0. Links = {0, 1} /\ Link = {0, 1}
      BY <2>1
    <3>2. 1 \in Link \ {0} /\ 1 \in Links
      BY <3>0
    <3>3. Supply(1) = 0
      BY <1>9, <2>1, <3>1, <3>2
    <3> QED BY <1>4, <2>1, <3>2, <3>3
  <2>4. \A k \in Links : Supply(k)' = IF k < pos' THEN w ELSE 0
    <3>1. 0 < pos' /\ ~ (1 < pos')
      BY <2>1
    <3>2. ASSUME NEW k \in Links PROVE Supply(k)' = IF k < pos' THEN w ELSE 0
      <4>1. CASE k = 0
        BY <2>2, <3>1, <4>1
      <4>2. CASE k = 1
        BY <2>3, <3>1, <4>2
      <4> QED BY <2>1, <4>1, <4>2
    <3> QED BY <3>2
  <2> QED BY <1>6, <1>9, <1>w, <2>1, <2>4 DEF DeficitExact, LinksFilled, Starting
<1>13. ASSUME got = w /\ pos' = 0
       PROVE  DeficitExact' /\ LinksFilled'
  <2>1. pc' \in Running
    BY <1>2, <1>7, <1>13
  <2>2. \A k \in Links : k <= l
    BY <1>1, <1>2, <1>l, <1>13, LinksServed
  <2>3. ASSUME NEW k \in Links PROVE Supply(k)' + deficit'[k] = w
    <3>1. deficit'[k] = 0 /\ w + 0 = w
      BY <1>6, <1>9
    <3>2. CASE k = l
      BY <1>10, <1>13, <3>1, <3>2
    <3>3. CASE k # l
      <4>1. k < l
        BY <1>3, <1>6, <2>2, <3>3, Constants
      <4>2. Supply(k) = w
        BY <1>9, <4>1
      <4> QED BY <1>4, <1>6, <3>1, <3>3, <4>2
    <3> QED BY <3>2, <3>3
  <2>4. DeficitExact'
    BY <1>6, <1>w, <2>3 DEF DeficitExact
  <2>5. LinksFilled'
    BY <2>1 DEF LinksFilled, Starting, Running
  <2> QED BY <2>4, <2>5
<1>14. DeficitExact' /\ LinksFilled'
  BY <1>11, <1>12, <1>13
<1> QED BY <1>5, <1>8, <1>14, WorkerParts

LEMMA KernelStep ==
  ASSUME WorkerInv, NEW l \in Links, Kernel(l), UNCHANGED myVars
  PROVE  WorkerInv'
<1>1. /\ DpInv /\ FramesFull /\ l \in Link /\ ProgramOK /\ DeficitExact /\ LinksFilled
      /\ Links \subseteq Link
  BY InLoop, WorkerParts, LinksServed
<1>2. DpInv' /\ FramesFull' /\ \A k \in Link : Supply(k)' = Supply(k)
  BY <1>1, KernelInv, KernelFull, KernelSupply
<1>3. UNCHANGED <<program, pc, pos, deficit>> /\ Links' = Links /\ Wanted' = Wanted
  BY DEF myVars, Links, Wanted, TwoLinkFill, EchoFill, DumpFill
<1>4. ProgramOK'
  BY <1>1, <1>3 DEF ProgramOK
<1>5. DeficitExact' /\ LinksFilled'
  BY <1>1, <1>2, <1>3 DEF DeficitExact, LinksFilled, Starting
<1> QED BY <1>2, <1>4, <1>5, WorkerParts
LEMMA StutterKeeps == ASSUME WorkerInv, UNCHANGED wVars PROVE WorkerInv'
<1>1. /\ UNCHANGED dpVars /\ UNCHANGED held
      /\ UNCHANGED <<program, pc, pos, deficit>>
      /\ Links' = Links /\ Wanted' = Wanted
  BY DEF wVars, myVars, dpVars, Links, Wanted, TwoLinkFill, EchoFill, DumpFill
<1>2. /\ pos \in Link /\ pos \in Deque /\ BatchSize \in Nat /\ DpInv /\ FramesFull
      /\ ProgramOK /\ DeficitExact /\ LinksFilled
  BY InLoop, WorkerParts
<1>3. DpInv' /\ FramesFull'
  BY <1>1, <1>2, CallInv
<1>4. \A k : Supply(k)' = Supply(k)
  BY <1>1 DEF Supply, Count
<1>5. ProgramOK'
  BY <1>1, <1>2 DEF ProgramOK
<1>6. DeficitExact' /\ LinksFilled'
  BY <1>1, <1>2, <1>4 DEF DeficitExact, LinksFilled, Starting
<1> QED BY <1>3, <1>5, <1>6, WorkerParts

-----------------------------------------------------------------------------
(* The theorems.                                                           *)

\* The area's buffers, in the order the area made them, are a pool.
LEMMA AreaIsPool == DpInit(AreaOrder) => Init
BY WorkerAssumption DEF Init

LEMMA WorkerStarts == WorkerInit => WorkerInv
<1> SUFFICES ASSUME WorkerInit PROVE WorkerInv
  OBVIOUS
<1>1. DpInit(AreaOrder) /\ Init
  BY AreaIsPool DEF WorkerInit
<1>2. DpInv /\ FramesFull
  BY <1>1, InitInv, NoFrames
<1>3. /\ program \in Program /\ pc = "get" /\ pos = 0
      /\ deficit = [l \in Link |-> 0]
  BY DEF WorkerInit
<1>4. 0 \in Links /\ Links \subseteq Link
  BY Constants DEF Links
<1>5. ProgramOK
  <2>1. Wanted \in Nat
    BY <1>3, WantedIsNat
  <2>2. 0 \in 0 .. Wanted
    BY <2>1
  <2>3. deficit \in [Link -> 0 .. Wanted]
    BY <1>3, <2>2
  <2> QED BY <1>3, <1>4, <2>3 DEF ProgramOK, AnyPc
<1>6. ASSUME NEW l \in Link PROVE Supply(l) = 0
  <2>1. /\ Fq(l) \in Place /\ NicRx(l) \in Place /\ Rx(l) \in Place
        /\ Fq(l) # Pool /\ NicRx(l) # Pool /\ Rx(l) # Pool
    BY Places DEF Fq, NicRx, Rx, Pool
  <2>2. held[Fq(l)] = <<>> /\ held[NicRx(l)] = <<>> /\ held[Rx(l)] = <<>>
    BY <1>1, <2>1 DEF DpInit
  <2>3. Count(Fq(l)) = 0 /\ Count(NicRx(l)) = 0 /\ Count(Rx(l)) = 0
    BY <2>2 DEF Count
  <2> QED BY <2>3 DEF Supply
<1>7. LinksFilled
  <2>1. ASSUME NEW l \in Links PROVE ~ (l < pos)
    BY <1>3, <1>4, Constants
  <2> QED BY <1>3, <1>4, <1>6, <2>1 DEF LinksFilled
<1>8. DeficitExact
  BY <1>3 DEF DeficitExact, Starting
<1> QED BY <1>2, <1>5, <1>7, <1>8, WorkerParts

\* What the loops are made of.
LEMMA LoopSteps ==
  MulticoreLoop \/ TwoLinkLoop \/ EchoLoop \/ DropLoop \/ DumpLoop =>
    \/ NoExit("service") \/ NoExit("receive") \/ Tick
    \/ ServiceCq \/ Poll \/ Forward \/ Kick \/ HandBack
    \/ Receive("hand_on") \/ Receive("swap") \/ SwapMacs
    \/ Refill(FillThreshold) \/ Refill(1)
BY Zenon DEF MulticoreLoop, TwoLinkLoop, EchoLoop, DropLoop, DumpLoop

LEMMA WorkerNextInv == WorkerInv /\ [WorkerNext]_wVars => WorkerInv'
<1> SUFFICES ASSUME WorkerInv, [WorkerNext]_wVars PROVE WorkerInv'
  OBVIOUS
<1>1. CASE MulticoreLoop \/ TwoLinkLoop \/ EchoLoop \/ DropLoop \/ DumpLoop
  <2>1. ASSUME Receive("hand_on") \/ Receive("swap") PROVE WorkerInv'
    BY <2>1, ReceiveStep
  <2>2. ASSUME \/ NoExit("service") \/ NoExit("receive") \/ Tick
               \/ ServiceCq \/ Poll \/ Forward \/ Kick \/ HandBack
        PROVE  WorkerInv'
    BY <2>2, QuietSteps
  <2>3. ASSUME SwapMacs PROVE WorkerInv'
    BY <2>3, SwapStep
  <2>4. ASSUME Refill(FillThreshold) \/ Refill(1) PROVE WorkerInv'
    BY <2>4, RefillStep
  <2> QED BY <1>1, <2>1, <2>2, <2>3, <2>4, LoopSteps
<1>2. CASE GetBufs \/ FillLink
  BY <1>2, GetBufsStep, FillLinkStep
<1>3. CASE Exit \/ LastTick
  BY <1>3, QuietSteps
<1>4. ASSUME NEW l \in Links, Kernel(l), UNCHANGED myVars PROVE WorkerInv'
  BY <1>4, KernelStep
<1>5. CASE UNCHANGED wVars
  BY <1>5, StutterKeeps
<1> QED BY <1>1, <1>2, <1>3, <1>4, <1>5 DEF WorkerNext, Step

\* Whichever of the five programs runs, its calls keep what Datapath promises
\* and its ledger keeps to the receive sides of its links.
THEOREM WorkerInvariant == WorkerSpec => []WorkerInv
BY WorkerStarts, WorkerNextInv, PTL DEF WorkerSpec

\* The loop is in one of its places, at one of its links, and fq_deficit is
\* between zero and what the initial fill gave: the usize never wraps.
THEOREM WorkerTypeCorrect == WorkerSpec => []WorkerTypeOK
<1>1. WorkerInv => WorkerTypeOK
  BY DEF WorkerInv
<1> QED BY <1>1, WorkerInvariant, PTL

\* fq_deficit is exactly what the fill ring, the NIC and the RX ring of the
\* link lack of the initial fill: every frame received is charged once, every
\* buffer refilled is credited once, and a fill that the ring refuses credits
\* nothing.
THEOREM DeficitsExact == WorkerSpec => []DeficitExact
<1>1. WorkerInv => DeficitExact
  BY DEF WorkerInv
<1> QED BY <1>1, WorkerInvariant, PTL

\* The loops, too, keep every buffer in exactly one place and reach no panic of
\* the library but sendto's: swap_macs, the one step of theirs that is not a
\* call, moves nothing.
THEOREM LoopsOwnBuffers == WorkerSpec => [](Ownership /\ NoLibraryPanic)
<1>1. WorkerInv => Ownership /\ NoLibraryPanic
  BY DEF WorkerInv, DpInv
<1> QED BY <1>1, WorkerInvariant, PTL

\* What the loops send has a packet in it: frames go from the RX ring through
\* the deque to the wire, and only service, at the end, empties them.
THEOREM LoopsSendFrames == WorkerSpec => []FramesFull
<1>1. WorkerInv => FramesFull
  BY DEF WorkerInv
<1> QED BY <1>1, WorkerInvariant, PTL

-----------------------------------------------------------------------------
(* The initial fill.                                                       *)

\* What the program has in hand after `get'.
Given == Least(IF program \in Workers THEN StartBufs ELSE BufNum[program],
               Cardinality(Buf))

\* How many buffers the Vec has until the links have theirs.
BufsLeft ==
  /\ pc = "get" => Count(Pool) = Cardinality(Buf) /\ Count(V("bufs")) = 0
  /\ pc = "initial_fill" => Count(V("bufs")) = Given - pos * Wanted

\* Only the thread's last step panics.
PanicsEnd == crash # "none" => pc = "panicked"

StartupInv == WorkerInv /\ PanicsEnd /\ BufsLeft /\ FillsComplete

\* What is given and what the links are to have are numbers that fit together,
\* but for a worker.
LEMMA EnoughGiven ==
  ASSUME program \in Program
  PROVE  /\ Given \in Nat /\ Wanted \in Nat /\ Wanted <= RingSize /\ Wanted <= MaxBatch
         /\ program \notin Workers => Wanted <= Given
         /\ program = "2link" => 2 * Wanted <= Given
<1>1. /\ Cardinality(Buf) \in Nat /\ RingSize \in Nat /\ MaxBatch \in Nat
      /\ StartBufs \in Nat /\ InitialFill \in Nat
      /\ InitialFill <= RingSize /\ InitialFill <= MaxBatch
  BY FS_CardinalityType, DatapathAssumption, Constants, WorkerAssumption
<1>2. CASE program \in Workers
  <2>1. Given = Least(StartBufs, Cardinality(Buf)) /\ Wanted = InitialFill
    BY <1>2 DEF Given, Wanted, Workers
  <2>2. program # "2link"
    BY <1>2 DEF Workers
  <2> QED BY <1>1, <1>2, <2>1, <2>2, LeastFacts
<1>3. CASE program \notin Workers
  <2> DEFINE n == BufNum[program]
  <2>1. n \in Nat /\ n <= Least(MaxBatch, Cardinality(Buf))
    BY <1>1, <1>3, Constants, WorkerAssumption
  <2>2. n <= MaxBatch /\ n <= Cardinality(Buf)
    <3>1. /\ Least(MaxBatch, Cardinality(Buf)) \in Nat
          /\ Least(MaxBatch, Cardinality(Buf)) <= MaxBatch
          /\ Least(MaxBatch, Cardinality(Buf)) <= Cardinality(Buf)
      BY <1>1, LeastFacts
    <3> HIDE DEF n
    <3> QED BY <1>1, <2>1, <3>1
  <2>3. Given = n
    BY <1>1, <1>3, <2>1, <2>2 DEF Given, Least
  <2> HIDE DEF n
  <2>0. n = BufNum[program]
    BY DEF n
  <2>4. /\ n \div 2 \in Nat /\ 2 * (n \div 2) <= n
        /\ Least(n \div 2, RingSize) \in Nat /\ Least(n \div 2, RingSize) <= n \div 2
        /\ Least(n \div 2, RingSize) <= RingSize
        /\ Least(RingSize, n) \in Nat /\ Least(RingSize, n) <= RingSize
        /\ Least(RingSize, n) <= n
    <3>1. n \div 2 \in Nat /\ 2 * (n \div 2) <= n
      BY <2>1
    <3> QED BY <1>1, <2>1, <3>1, LeastFacts
  <2>5. CASE program = "2link"
    <3>1. Wanted = Least(n \div 2, RingSize)
      BY <1>3, <2>0, <2>5 DEF Wanted, TwoLinkFill
    <3> QED BY <1>1, <1>3, <2>1, <2>2, <2>3, <2>4, <3>1
  <2>6. CASE program \in {"1link", "dump"}
    <3>1. Wanted = Least(RingSize, n) /\ program # "2link"
      BY <1>3, <2>0, <2>6 DEF Wanted, EchoFill, DumpFill
    <3> QED BY <1>1, <1>3, <2>1, <2>2, <2>3, <2>4, <3>1
  <2> QED BY <1>3, <2>5, <2>6, WorkerAssumption DEF Workers, Forwarders
<1> QED BY <1>2, <1>3

\* The kernel has no part in the pool and the Vec.
LEMMA KernelElsewhere ==
  ASSUME DpInv, NEW l \in Link, Kernel(l)
  PROVE  /\ Count(Pool)' = Count(Pool) /\ Count(V("bufs"))' = Count(V("bufs"))
         /\ UNCHANGED crash
<1>1. HeldOK /\ HeldType /\ Pool \in Place /\ V("bufs") \in Place
  BY InvParts, Places, Constants DEF HeldOK
<1>2. UNCHANGED crash
  BY DEF Kernel, KernelTakeFill, KernelReceive, KernelRxSleep, KernelTakeTx,
         KernelSend, KernelTxSleep
<1>3. CASE KernelRxSleep(l) \/ KernelTxSleep(l)
  BY <1>2, <1>3 DEF KernelRxSleep, KernelTxSleep, Count
<1>4. CASE ~ (KernelRxSleep(l) \/ KernelTxSleep(l))
  <2>1. PICK p, r \in {Fq(l), NicRx(l), Rx(l), Tx(l), NicTx(l), Cq(l)} : Moved(p, r, 1)
    BY <1>1, <1>4, KernelMoves DEF Kernel
  <2>2. Pool \notin {p, r} /\ V("bufs") \notin {p, r}
    BY DEF Fq, NicRx, Rx, Tx, NicTx, Cq, Pool, V
  <2> QED BY <1>1, <1>2, <2>1, <2>2 DEF Moved, Count
<1> QED BY <1>3, <1>4

\* None of the calls of a loop panics, but for sendto.
LEMMA LoopGoesOn ==
  ASSUME StartupInv,
         MulticoreLoop \/ TwoLinkLoop \/ EchoLoop \/ DropLoop \/ DumpLoop
  PROVE  /\ pc \in Running /\ crash = "none" /\ UNCHANGED program
         /\ \/ pc' \in Running /\ crash' = "none"
            \/ pc' = "panicked" /\ crash' # "none"
<1>1. /\ pos \in Link /\ pos \in Deque /\ BatchSize \in Nat /\ pos \in Links
      /\ program \in Program /\ HeldOK /\ "bufs" \in Vec /\ ProgramOK
  BY InLoop, InvParts, Constants, WorkerParts DEF StartupInv
<1>2. pc \in Running /\ UNCHANGED program
  BY LoopSteps
     DEF NoExit, Tick, ServiceCq, Poll, WakeRx, Forward, Kick, HandBack, Receive,
         SwapMacs, Refill, Running
<1>3. crash = "none"
  BY <1>2 DEF StartupInv, PanicsEnd, Running
<1> SUFFICES \/ pc' \in Running /\ crash' = "none"
             \/ pc' = "panicked" /\ crash' # "none"
  BY <1>2, <1>3
<1>l. PICK l \in Link : l = pos /\ l \in Deque
  BY <1>1
<1>4. CASE Kick
  <2>1. pc' = IF crash' = "none" THEN "refill" ELSE "panicked"
    BY <1>4 DEF Kick
  <2>2. "refill" \in Running
    BY DEF Running
  <2> QED BY <2>1, <2>2, Zenon
<1>5. CASE NoExit("service") \/ NoExit("receive") \/ Tick \/ SwapMacs \/ HandBack
  BY <1>3, <1>5 DEF NoExit, Tick, SwapMacs, Rewrite, HandBack, Discard, dpVars, Running
<1>6. CASE ServiceCq \/ Poll \/ Forward
  BY <1>3, <1>6 DEF ServiceCq, Service, Poll, WakeRx, Wake, Forward, TrySend, dpVars,
                    Running
<1>7. CASE Receive("hand_on") \/ Receive("swap")
  <2>1. TryRecv(l, l, BatchSize) /\ pc' \in Running
    BY <1>7, <1>l DEF Receive, Running
  <2> QED BY <1>1, <1>3, <1>l, <2>1, RecvMoves
<1>8. CASE Refill(FillThreshold) \/ Refill(1)
  <2>1. pc' \in Running
    BY <1>1, <1>8, LoopStartRuns DEF Refill
  <2>2. PICK n \in Nat : n = deficit[pos]
    <3>1. deficit[pos] \in 0 .. Wanted
      BY <1>1 DEF ProgramOK
    <3> QED BY <3>1
  <2>3. Fill(l, "bufs", n) \/ UNCHANGED crash
    BY <1>8, <1>l, <2>2 DEF Refill, dpVars
  <2> QED BY <1>1, <1>3, <2>1, <2>3, FillMoves
<1> QED BY <1>4, <1>5, <1>6, <1>7, <1>8, LoopSteps

\* What the pool gives goes to the Vec, which was empty.
LEMMA GetGives ==
  ASSUME StartupInv, GetBufs
  PROVE  PanicsEnd' /\ BufsLeft' /\ FillsComplete'
<1>1. /\ HeldOK /\ HeldType /\ program \in Program /\ "bufs" \in Vec /\ LinksFilled
  BY InvParts, InLoop, Constants, WorkerParts DEF StartupInv, HeldOK
<1>2. PICK n \in Nat : /\ n = IF program \in Workers THEN StartBufs ELSE BufNum[program]
                       /\ PoolGet("bufs", n)
  BY <1>1, Constants DEF GetBufs
<1>3. /\ pc = "get" /\ pc' = "initial_fill" /\ UNCHANGED <<program, pos, deficit, crash>>
      /\ pos = 0 /\ crash = "none"
  BY <1>1, <1>2 DEF GetBufs, PoolGet, LinksFilled, Starting, StartupInv, PanicsEnd
<1>4. Count(Pool) = Cardinality(Buf) /\ Count(V("bufs")) = 0
  BY <1>3 DEF StartupInv, BufsLeft
<1>5. Moved(Pool, V("bufs"), Given)
  BY <1>1, <1>2, <1>4, PoolMoves DEF Given
<1>6. Given \in Nat /\ Wanted \in Nat
  BY <1>1, EnoughGiven
<1>7. Count(V("bufs"))' = Given
  BY <1>4, <1>5, <1>6 DEF Moved
<1>8. Given' = Given /\ Wanted' = Wanted
  BY <1>3 DEF Given, Wanted, TwoLinkFill, EchoFill, DumpFill
<1>9. Given - 0 * Wanted = Given
  BY <1>6
<1>10. BufsLeft'
  BY <1>3, <1>7, <1>8, <1>9 DEF BufsLeft
<1> QED BY <1>3, <1>10 DEF PanicsEnd, FillsComplete

\* A link that has nothing yet has room for all it is to have, and the Vec has
\* enough of them left.
LEMMA FillGives ==
  ASSUME StartupInv, FillLink
  PROVE  PanicsEnd' /\ BufsLeft' /\ FillsComplete'
<1>1. /\ HeldOK /\ HeldType /\ program \in Program /\ "bufs" \in Vec /\ LinksFilled
      /\ pos \in Link /\ pos \in Links
  BY InvParts, InLoop, Constants, WorkerParts DEF StartupInv, HeldOK
<1>l. PICK l \in Link : l = pos
  BY <1>1
<1>w. PICK w \in Nat : w = Wanted /\ w <= RingSize
  BY <1>1, EnoughGiven
<1>g. PICK g \in Nat : g = Given
  BY <1>1, EnoughGiven
<1>2. /\ pc = "initial_fill" /\ crash = "none" /\ Fill(l, "bufs", w)
      /\ pos' = NextLink(l) /\ UNCHANGED <<program, deficit>>
      /\ pc' = IF Filled(l, "bufs", w) # w THEN "panicked"
               ELSE IF pos' # 0 THEN "initial_fill" ELSE LoopStart(0)
  BY <1>l, <1>w DEF FillLink, StartupInv, PanicsEnd
<1>3. Given' = g /\ Wanted' = w /\ Links' = Links
  BY <1>2, <1>g, <1>w DEF Given, Wanted, TwoLinkFill, EchoFill, DumpFill, Links
<1>4. UNCHANGED crash /\ Moved(V("bufs"), Fq(l), Filled(l, "bufs", w))
  BY <1>1, <1>2, FillMoves
<1>5. /\ l \in {0, 1} /\ (l = 1 => Links = {0, 1}) /\ RingSize \in Nat
      /\ Links \in {{0, 1}, {0}}
  BY <1>1, <1>l, LinksServed, Constants
<1>v. PICK v \in Nat : v = Count(V("bufs"))
  BY <1>1, Counts, Places
<1>6. v = g - l * w
  BY <1>2, <1>g, <1>l, <1>v, <1>w DEF StartupInv, BufsLeft
<1>7. Count(Fq(l)) = 0
  <2>1. Supply(l) = 0
    BY <1>1, <1>2, <1>5, <1>l DEF LinksFilled, Starting
  <2>2. Count(Fq(l)) \in Nat /\ Count(NicRx(l)) \in Nat /\ Count(Rx(l)) \in Nat
    BY <1>1, Counts
  <2> QED BY <2>1, <2>2 DEF Supply
<1>8. Filled(l, "bufs", w) = Least(v, w)
  <2>1. Least(v, w) \in Nat /\ Least(v, w) <= w
    BY LeastFacts
  <2>2. 0 + Least(v, w) <= RingSize
    BY <1>5, <1>w, <2>1
  <2> QED BY <1>7, <1>v, <2>2 DEF Filled, FillBatch, Reserve
<1>9. CASE w <= v
  <2>1. Filled(l, "bufs", w) = w
    BY <1>8, <1>9 DEF Least
  <2>2. Count(V("bufs"))' = v - w
    BY <1>4, <1>v, <2>1 DEF Moved
  <2>3. pc' = IF pos' # 0 THEN "initial_fill" ELSE LoopStart(0)
    BY <1>2, <2>1
  <2>4. LoopStart(0) \in Running
    BY <1>1, LoopStartRuns
  <2>5. pos' # 0 => l = 0 /\ pos' = 1
    BY <1>1, <1>2, <1>l, LinksServed
  <2>6. pos' # 0 => v - w = g - 1 * w
    BY <1>6, <2>5
  <2>7. BufsLeft'
    BY <1>3, <2>2, <2>3, <2>4, <2>5, <2>6 DEF BufsLeft, Running
  <2>8. pc' # "panicked" /\ crash' = "none"
    BY <1>2, <1>4, <2>3, <2>4 DEF Running
  <2> QED BY <2>7, <2>8 DEF PanicsEnd, FillsComplete
<1>10. CASE v < w
  <2>1. Filled(l, "bufs", w) # w
    BY <1>8, <1>10 DEF Least
  <2>2. pc' = "panicked" /\ crash' = "none"
    BY <1>2, <1>4, <2>1
  <2>3. Cardinality(Links) \in Nat /\ l + 1 <= Cardinality(Links)
    <3>1. Cardinality({0}) = 1 /\ Cardinality({0, 1}) = 2
      <4>1. IsFiniteSet({0}) /\ Cardinality({0}) = 1
        BY FS_Singleton
      <4>2. {0, 1} = {0} \cup {1} /\ 1 \notin {0}
        OBVIOUS
      <4> QED BY <4>1, <4>2, FS_AddElement
    <3>2. CASE l = 0
      BY <1>5, <3>1, <3>2
    <3>3. CASE l = 1
      BY <1>5, <3>1, <3>3
    <3> QED BY <1>5, <3>2, <3>3
  <2>4. g < (l + 1) * w
    BY <1>5, <1>6, <1>10
  <2>5. program \in Workers
    <3>1. program \notin Workers => w <= g
      BY <1>1, <1>g, <1>w, EnoughGiven
    <3>2. program = "2link" => 2 * w <= g
      BY <1>1, <1>g, <1>w, EnoughGiven
    <3>3. l = 1 => program \in {"multicore", "2link"}
      BY <1>1, <1>l DEF Links
    <3>4. l = 0 => g < w
      BY <2>4
    <3>5. l = 1 => g < 2 * w
      BY <2>4
    <3>6. "multicore" \in Workers
      BY DEF Workers
    <3>7. ~ (g < w /\ w <= g) /\ ~ (g < 2 * w /\ 2 * w <= g)
      OBVIOUS
    <3> QED BY <1>5, <3>1, <3>2, <3>3, <3>4, <3>5, <3>6, <3>7
  <2>6. g = Least(StartBufs, Cardinality(Buf)) /\ w = InitialFill
    BY <1>g, <1>w, <2>5 DEF Given, Wanted, Workers
  <2>7. (l + 1) * w <= Cardinality(Links) * w
    BY <1>5, <2>3
  <2>8. g < Cardinality(Links) * w
    <3>1. Cardinality(Links) * w \in Nat /\ (l + 1) * w \in Nat
      BY <1>5, <2>3
    <3> QED BY <2>4, <2>7, <3>1
  <2>9. FillsComplete'
    BY <1>2, <1>3, <2>5, <2>6, <2>8 DEF FillsComplete
  <2> QED BY <2>2, <2>9 DEF PanicsEnd, BufsLeft
<1> QED BY <1>9, <1>10

LEMMA StartupStep ==
  ASSUME StartupInv, [WorkerNext]_wVars
  PROVE  StartupInv'
<1>1. WorkerInv'
  BY WorkerNextInv DEF StartupInv
<1>2. CASE MulticoreLoop \/ TwoLinkLoop \/ EchoLoop \/ DropLoop \/ DumpLoop
  BY <1>1, <1>2, LoopGoesOn
     DEF StartupInv, PanicsEnd, BufsLeft, FillsComplete, Running
<1>3. CASE GetBufs \/ FillLink
  BY <1>1, <1>3, GetGives, FillGives DEF StartupInv
<1>4. CASE Exit \/ LastTick
  BY <1>1, <1>4
     DEF Exit, LastTick, dpVars, StartupInv, PanicsEnd, BufsLeft, FillsComplete
<1>5. CASE \/ \E l \in Links : Kernel(l) /\ UNCHANGED myVars
           \/ UNCHANGED wVars
  <2>1. /\ Count(Pool)' = Count(Pool) /\ Count(V("bufs"))' = Count(V("bufs"))
        /\ UNCHANGED crash
    BY <1>5, KernelElsewhere, InLoop, LinksServed DEF StartupInv, wVars, Count
  <2>2. UNCHANGED <<program, pc, pos>>
    BY <1>5 DEF wVars, myVars
  <2>3. Given' = Given /\ Wanted' = Wanted /\ Links' = Links
    BY <2>2 DEF Given, Wanted, TwoLinkFill, EchoFill, DumpFill, Links
  <2> QED BY <1>1, <2>1, <2>2, <2>3 DEF StartupInv, PanicsEnd, BufsLeft, FillsComplete
<1> QED BY <1>2, <1>3, <1>4, <1>5 DEF WorkerNext, Step

LEMMA StartupStarts == WorkerInit => StartupInv
<1> SUFFICES ASSUME WorkerInit PROVE StartupInv
  OBVIOUS
<1>1. pc = "get" /\ crash = "none" /\ DpInit(AreaOrder)
  BY DEF WorkerInit, DpInit
<1>2. Count(Pool) = Cardinality(Buf)
  <2>1. held[Pool] = AreaOrder
    BY <1>1, Places DEF DpInit
  <2>2. Cardinality(Buf) \in Nat
    BY FS_CardinalityType, DatapathAssumption
  <2>3. Len(AreaOrder) = Cardinality(Buf)
    BY <2>2, WorkerAssumption
  <2> QED BY <2>1, <2>3 DEF Count
<1>3. Count(V("bufs")) = 0
  <2>1. V("bufs") \in Place /\ V("bufs") # Pool
    BY Places, Constants DEF V, Pool
  <2>2. held[V("bufs")] = <<>>
    BY <1>1, <2>1 DEF DpInit
  <2> QED BY <2>2 DEF Count
<1> QED BY <1>1, <1>2, <1>3, WorkerStarts
    DEF StartupInv, PanicsEnd, BufsLeft, FillsComplete

\* Whatever --bufnum and ring size, main never panics on an incomplete initial
\* fill, and a worker only where the pool cannot have given it enough.
THEOREM InitialFillsComplete == WorkerSpec => []FillsComplete
<1>1. StartupInv => FillsComplete
  BY DEF StartupInv
<1> QED BY <1>1, StartupStarts, StartupStep, PTL DEF WorkerSpec

-----------------------------------------------------------------------------
(* The programs are clients of the crate.                                  *)

\* The batch sizes the programs pass.
LEMMA Batches ==
  ASSUME StartupInv
  PROVE  /\ BatchSize \in Batch /\ Wanted \in Batch /\ deficit[pos] \in Batch
         /\ program \in Workers => StartBufs \in Batch
         /\ program \notin Workers => BufNum[program] \in Batch
<1>1. /\ program \in Program /\ pos \in Link /\ ProgramOK
      /\ MaxBatch \in Nat /\ RingSize \in Nat /\ Cardinality(Buf) \in Nat
  BY InLoop, WorkerParts, FS_CardinalityType, DatapathAssumption DEF StartupInv
<1>2. BatchSize \in Batch
  <2>1. Least(MaxBatch, RingSize) \in Nat /\ Least(MaxBatch, RingSize) <= MaxBatch
    BY <1>1, LeastFacts
  <2>2. BatchSize \in 1 .. Least(MaxBatch, RingSize)
    BY WorkerAssumption
  <2> QED BY <1>1, <2>1, <2>2 DEF Batch
<1>3. Wanted \in Batch /\ \A n \in 0 .. Wanted : n \in Batch
  BY <1>1, EnoughGiven DEF Batch
<1>4. deficit[pos] \in 0 .. Wanted
  BY <1>1 DEF ProgramOK
<1>5. StartBufs \in Batch
  BY <1>1, WorkerAssumption DEF Batch
<1>6. ASSUME program \notin Workers PROVE BufNum[program] \in Batch
  <2>1. /\ Least(MaxBatch, Cardinality(Buf)) \in Nat
        /\ Least(MaxBatch, Cardinality(Buf)) <= MaxBatch
    BY <1>1, LeastFacts
  <2>2. BufNum[program] \in 1 .. Least(MaxBatch, Cardinality(Buf))
    BY <1>1, <1>6, WorkerAssumption
  <2> QED BY <1>1, <2>1, <2>2 DEF Batch
<1> QED BY <1>2, <1>3, <1>4, <1>5, <1>6

\* A step of a program that touches buffers is one call.
LEMMA StepIsCall ==
  ASSUME StartupInv, [WorkerNext]_wVars
  PROVE  [Next]_dpVars
<1>1. /\ pos \in Link /\ pos \in Deque /\ OutLink(pos) \in Link /\ "bufs" \in Vec
      /\ program \in Program /\ Links \subseteq Link /\ WorkerInv
  BY InLoop, LinksServed, Constants DEF StartupInv
<1>c. ASSUME crash = "none",
             \/ \E n \in Batch : \/ Fill(pos, "bufs", n) \/ Service(pos, "bufs", n)
                                \/ TryRecv(pos, pos, n) \/ PoolGet("bufs", n)
                                \/ TrySend(OutLink(pos), pos, n)
             \/ WakeupIfRequired(OutLink(pos)) \/ \E ok \in BOOLEAN : Wake(pos, ok)
             \/ Discard(pos, "bufs")
             \/ \E frame \in [At(D(pos)) -> Packet] : Rewrite(pos, frame)
      PROVE  Client
  BY <1>1, <1>c, Zenon DEF Client
<1>2. CASE MulticoreLoop \/ TwoLinkLoop \/ EchoLoop \/ DropLoop \/ DumpLoop
  <2>0. crash = "none"
    BY <1>2, LoopGoesOn
  <2>1. CASE NoExit("service") \/ NoExit("receive") \/ Tick
    BY <2>1 DEF NoExit, Tick
  <2>2. CASE ServiceCq
    BY <1>c, <2>0, <2>2, Batches DEF ServiceCq, Next
  <2>3. CASE Poll
    BY <1>c, <2>0, <2>3 DEF Poll, WakeRx, Next
  <2>4. CASE Forward
    BY <1>c, <2>0, <2>4, Batches DEF Forward, Next
  <2>5. CASE Kick
    BY <1>c, <2>0, <2>5 DEF Kick, Next
  <2>6. CASE HandBack
    BY <1>c, <2>0, <2>6 DEF HandBack, Next
  <2>7. CASE Receive("hand_on") \/ Receive("swap")
    BY <1>c, <2>0, <2>7, Batches DEF Receive, Next
  <2>8. CASE SwapMacs
    BY <1>1, <1>c, <2>0, <2>8, SwapIsRewrite DEF Next
  <2>9. CASE Refill(FillThreshold) \/ Refill(1)
    BY <1>c, <2>0, <2>9, Batches DEF Refill, Next
  <2> QED BY <1>2, <2>1, <2>2, <2>3, <2>4, <2>5, <2>6, <2>7, <2>8, <2>9, LoopSteps
<1>3. CASE GetBufs \/ FillLink
  <2>1. crash = "none"
    BY <1>3 DEF GetBufs, FillLink, StartupInv, PanicsEnd
  <2> QED BY <1>3, <1>c, <2>1, Batches DEF GetBufs, FillLink, Next
<1>4. CASE Exit \/ LastTick \/ UNCHANGED wVars
  BY <1>4 DEF Exit, LastTick, wVars, dpVars
<1>5. ASSUME NEW l \in Links, Kernel(l) PROVE Next
  BY <1>1, <1>5 DEF Next
<1> QED BY <1>2, <1>3, <1>4, <1>5 DEF WorkerNext, Step

\* Every program runs the crate as Datapath's client: whatever Datapath promises
\* to a client that calls with any arguments in any order holds of each loop,
\* with its threads, deficits and initial fills.
THEOREM ProgramsAreClients == WorkerSpec => Spec
<1>1. WorkerInit => Init
  BY AreaIsPool DEF WorkerInit
<1> QED BY <1>1, StartupStarts, StartupStep, StepIsCall, PTL DEF WorkerSpec, Spec
=============================================================================
