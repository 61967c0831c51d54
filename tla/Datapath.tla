------------------------------ MODULE Datapath ------------------------------
(***************************************************************************)
(* Where every frame buffer of an MmapArea is, and the calls of the crate  *)
(* and of the kernel that move it.                                         *)
(*                                                                         *)
(* A BufMmap is moved, never copied: from the BufPoolVec to a Vec of the   *)
(* program, to a link's fill ring, through the kernel to the RX ring, to an *)
(* ArrayDeque, to a TX ring, through the kernel to the completion ring and *)
(* back to a Vec.  `held' maps each of these places to the buffers in it.  *)
(*                                                                         *)
(* fill, try_send, try_recv and service are single steps here: each looks  *)
(* at the other side once (reserve or peek) and shows its effect once      *)
(* (submit or release), and XskRing is a FIFO queue under all              *)
(* interleavings of those.  What try_send does after its submit, the test  *)
(* of the need_wakeup flag and the sendto, is a step of its own, because   *)
(* the kernel acts in between.  The client calls with any arguments.       *)
(***************************************************************************)
EXTENDS Integers, Sequences, FiniteSets

CONSTANTS
  Buf,              \* the buffers of the area
  Link,             \* links; each has a Umem (fq, cq) and a Socket (rx, tx)
  Vec, Deque,       \* the program's Vecs and ArrayDeques of buffers
  RingSize,         \* entries of every ring
  PendingLen,       \* capacity of an ArrayDeque (PENDING_LEN)
  VecCapacity,      \* capacity of a Vec
  MaxBatch,         \* largest batch_size a caller passes
  Packet, NoPacket, \* the packets, and the content of a buffer of len 0
  Arriving,         \* Arriving[l]: the packets that may arrive on link l
  SendtoOutcome     \* what sendto may do: "ok", "busy" (accepted errno), "fatal"

\* Vecs are created with room for all buffers the program has:
\* Vec::with_capacity(START_BUFS), and MmapArea::new's own.
ASSUME DatapathAssumption ==
  /\ IsFiniteSet(Buf)
  /\ RingSize \in Nat \ {0} /\ PendingLen \in Nat \ {0} /\ MaxBatch \in Nat \ {0}
  /\ VecCapacity \in Nat /\ Cardinality(Buf) <= VecCapacity
  /\ NoPacket \notin Packet /\ Arriving \in [Link -> SUBSET Packet]
  /\ SendtoOutcome \subseteq {"ok", "busy", "fatal"} /\ "ok" \in SendtoOutcome

VARIABLES
  held,      \* the buffers at each place, in order
  data,      \* the packet in each buffer (its len and bytes)
  rxAsleep,  \* XDP_RING_NEED_WAKEUP of each fill ring: receive is stopped
  txAsleep,  \* the same flag of each TX ring: transmit is stopped
  kicking,   \* links whose try_send has submitted and not yet tested the flag
  lastSent,  \* the packet each link put on the wire last
  crash      \* the panic that ended the thread, or "none"

dpVars == <<held, data, rxAsleep, txAsleep, kicking, lastSent, crash>>

-----------------------------------------------------------------------------
(* Places.  The NIC holds the frames the driver took from a fill ring to   *)
(* receive into (nicRx) and from a TX ring to send (nicTx).                *)

Pool     == <<"pool">>
V(v)     == <<"vec", v>>
D(d)     == <<"deque", d>>
Fq(l)    == <<"fq", l>>
NicRx(l) == <<"nicRx", l>>
Rx(l)    == <<"rx", l>>
Tx(l)    == <<"tx", l>>
NicTx(l) == <<"nicTx", l>>
Cq(l)    == <<"cq", l>>

Place ==
  {Pool} \cup {V(v) : v \in Vec} \cup {D(d) : d \in Deque}
  \cup UNION {{Fq(l), NicRx(l), Rx(l), Tx(l), NicTx(l), Cq(l)} : l \in Link}

Count(p) == Len(held[p])

\* The buffers at a place.
At(p) == {held[p][i] : i \in DOMAIN held[p]}

\* pop_front / peek and release: the n oldest, in order.
MoveFront(p, r, n) ==
  held' = [held EXCEPT ![p] = SubSeq(@, n + 1, Len(@)),
                       ![r] = @ \o SubSeq(held[p], 1, n)]

\* drain(len - n ..): the n last, in order.
MoveBack(p, r, n) ==
  held' = [held EXCEPT ![p] = SubSeq(@, 1, Len(@) - n),
                       ![r] = @ \o SubSeq(held[p], Count(p) - n + 1, Count(p))]

\* Mutated: the Vec gives its first buffers and drops its last.
MovePopped_First(p, r, n) ==
  held' = [held EXCEPT ![p] = SubSeq(@, 1, Len(@) - n),
                       ![r] = @ \o SubSeq(held[p], 1, n)]

\* pop in a loop: the n last, the last one first.
MovePopped(p, r, n) ==
  held' = [held EXCEPT ![p] = SubSeq(@, 1, Len(@) - n),
                       ![r] = @ \o [k \in 1 .. n |-> held[p][Count(p) + 1 - k]]]

Least(m, n) == IF m <= n THEN m ELSE n

-----------------------------------------------------------------------------
(* The crate.                                                              *)

\* _xsk_ring_prod__reserve: all n entries or none.
Reserve(ring, n) == IF Count(ring) + n <= RingSize THEN n ELSE 0

\* batch_size of fill.
FillBatch(v, b) == Least(Count(V(v)), b)

\* Mutated: as many as were asked for, reserved or not.
Filled_Unreserved(l, v, b) == FillBatch(v, b)

Filled(l, v, b) == Reserve(Fq(l), FillBatch(v, b))

\* UmemFillQueue::fill; todo! when the Vec runs out within the loop.
Fill(l, v, b) ==
  /\ IF Filled(l, v, b) > Count(V(v))
     THEN crash' = "fill" /\ UNCHANGED held
     ELSE MovePopped(V(v), Fq(l), Filled(l, v, b)) /\ UNCHANGED crash
  /\ UNCHANGED <<data, rxAsleep, txAsleep, kicking, lastSent>>

\* UmemCompletionQueue::service: the BufMmap it makes has len 0.
VecRoom(v) == IF Count(V(v)) < VecCapacity THEN VecCapacity - Count(V(v)) ELSE 0
Serviced(l, v, b) == Least(Least(VecRoom(v), b), Count(Cq(l)))

Service(l, v, b) ==
  /\ MoveFront(Cq(l), V(v), Serviced(l, v, b))
  /\ data' = [x \in Buf |->
                IF \E k \in 1 .. Serviced(l, v, b) : x = held[Cq(l)][k]
                THEN NoPacket ELSE data[x]]
  /\ UNCHANGED <<rxAsleep, txAsleep, kicking, lastSent, crash>>

\* Mutated: the batch is not cut to the room in the deque.
RecvBatch_Uncut(d, b) == b

\* batch_size of try_recv.
RecvBatch(d, b)   == Least(PendingLen - Count(D(d)), b)
Received(l, d, b) == Least(RecvBatch(d, b), Count(Rx(l)))

\* SocketRx::try_recv; push_back panics when the deque would wrap.
TryRecv(l, d, b) ==
  /\ IF Count(D(d)) + Received(l, d, b) > PendingLen
     THEN crash' = "recv" /\ UNCHANGED held
     ELSE MoveFront(Rx(l), D(d), Received(l, d, b)) /\ UNCHANGED crash
  /\ UNCHANGED <<data, rxAsleep, txAsleep, kicking, lastSent>>

\* SocketTx::try_send up to its submit.  It returns at once for an empty
\* deque; otherwise the wakeup follows, even when the ring had no room.
SendBatch(d, b) == Least(Count(D(d)), b)
Sent(l, d, b)   == Reserve(Tx(l), SendBatch(d, b))

\* Mutated: frames are taken from the wrong end of the deque.
TrySend_PopBack(l, d, b) ==
  /\ l \notin kicking
  /\ SendBatch(d, b) > 0
  /\ MovePopped(D(d), Tx(l), Sent(l, d, b))
  /\ kicking' = kicking \cup {l}
  /\ UNCHANGED <<data, rxAsleep, txAsleep, lastSent, crash>>

TrySend(l, d, b) ==
  /\ l \notin kicking
  /\ SendBatch(d, b) > 0
  /\ MoveFront(D(d), Tx(l), Sent(l, d, b))
  /\ kicking' = kicking \cup {l}
  /\ UNCHANGED <<data, rxAsleep, txAsleep, lastSent, crash>>

\* Mutated: the flag is taken for a reason not to call sendto.
NeedsWakeup_Inverted(l) == ~txAsleep[l]

\* _xsk_ring_prod__needs_wakeup of the TX ring.
NeedsWakeup(l) == txAsleep[l]

\* SocketTx::wakeup_if_required: sendto when the flag is set.  ENOBUFS,
\* EAGAIN, EBUSY and ENETDOWN pass for success, any other errno panics.
WakeupIfRequired(l) ==
  /\ l \in kicking
  /\ kicking' = kicking \ {l}
  /\ \/ ~NeedsWakeup(l) /\ UNCHANGED <<txAsleep, crash>>
     \/ /\ NeedsWakeup(l)
        /\ \E r \in SendtoOutcome :
             /\ txAsleep' = [txAsleep EXCEPT ![l] = @ /\ r # "ok"]
             /\ crash' = IF r = "fatal" THEN "sendto" ELSE crash
  /\ UNCHANGED <<held, data, rxAsleep, lastSent>>

\* SocketRx::wake: poll restarts reception, and may restart transmission; an
\* error is only printed.
Wake(l, ok) ==
  /\ rxAsleep' = [rxAsleep EXCEPT ![l] = @ /\ ~ok]
  /\ \E tx \in {txAsleep[l], txAsleep[l] /\ ~ok} :
       txAsleep' = [txAsleep EXCEPT ![l] = tx]
  /\ UNCHANGED <<held, data, kicking, lastSent, crash>>

\* BufPoolVec::get and put.
PoolGet(v, n) ==
  /\ MoveBack(Pool, V(v), Least(n, Count(Pool)))
  /\ UNCHANGED <<data, rxAsleep, txAsleep, kicking, lastSent, crash>>

PoolPut(v, n) ==
  /\ MoveBack(V(v), Pool, Least(n, Count(V(v))))
  /\ UNCHANGED <<data, rxAsleep, txAsleep, kicking, lastSent, crash>>

-----------------------------------------------------------------------------
(* What programs do with the buffers in their hands.                       *)

\* rxdrop: everything received goes back to the Vec.
Discard(d, v) ==
  /\ MoveFront(D(d), V(v), Count(D(d)))
  /\ UNCHANGED <<data, rxAsleep, txAsleep, kicking, lastSent, crash>>

\* A traffic test pops buffers, writes packets into them and queues them.
Generate(v, d, n, p) ==
  /\ n <= Least(PendingLen - Count(D(d)), Count(V(v)))
  /\ MovePopped(V(v), D(d), n)
  /\ data' = [b \in Buf |->
                IF \E k \in 0 .. n - 1 : b = held[V(v)][Count(V(v)) - k]
                THEN p ELSE data[b]]
  /\ UNCHANGED <<rxAsleep, txAsleep, kicking, lastSent, crash>>

\* The frames of a deque get the contents frame[b]: swap_macs.
Rewrite(d, frame) ==
  /\ data' = [b \in Buf |-> IF b \in At(D(d)) THEN frame[b] ELSE data[b]]
  /\ UNCHANGED <<held, rxAsleep, txAsleep, kicking, lastSent, crash>>

-----------------------------------------------------------------------------
(* The kernel and the NIC.                                                 *)

KernelTakeFill(l) ==
  /\ held[Fq(l)] # <<>>
  /\ MoveFront(Fq(l), NicRx(l), 1)
  /\ rxAsleep' = [rxAsleep EXCEPT ![l] = FALSE]
  /\ UNCHANGED <<data, txAsleep, kicking, lastSent, crash>>

\* A packet arrives; when the RX ring is full it is dropped instead.
KernelReceive(l, p) ==
  /\ held[NicRx(l)] # <<>> /\ Count(Rx(l)) < RingSize
  /\ MoveFront(NicRx(l), Rx(l), 1)
  /\ data' = [data EXCEPT ![Head(held[NicRx(l)])] = p]
  /\ UNCHANGED <<rxAsleep, txAsleep, kicking, lastSent, crash>>

\* No buffer to receive into: the driver stops and asks for a poll.
KernelRxSleep(l) ==
  /\ held[Fq(l)] = <<>> /\ ~rxAsleep[l]
  /\ rxAsleep' = [rxAsleep EXCEPT ![l] = TRUE]
  /\ UNCHANGED <<held, data, txAsleep, kicking, lastSent, crash>>

\* A frame is taken only with a completion entry reserved for it.
CompletionRoom(l) == Count(NicTx(l)) + Count(Cq(l)) < RingSize

KernelTakeTx(l) ==
  /\ ~txAsleep[l] /\ held[Tx(l)] # <<>> /\ CompletionRoom(l)
  /\ MoveFront(Tx(l), NicTx(l), 1)
  /\ UNCHANGED <<data, rxAsleep, txAsleep, kicking, lastSent, crash>>

KernelSend(l) ==
  /\ held[NicTx(l)] # <<>>
  /\ MoveFront(NicTx(l), Cq(l), 1)
  /\ lastSent' = [lastSent EXCEPT ![l] = data[Head(held[NicTx(l)])]]
  /\ UNCHANGED <<data, rxAsleep, txAsleep, kicking, crash>>

\* Nothing to send, or nowhere to complete it: the driver stops.
KernelTxSleep(l) ==
  /\ ~txAsleep[l] /\ (held[Tx(l)] = <<>> \/ ~CompletionRoom(l))
  /\ txAsleep' = [txAsleep EXCEPT ![l] = TRUE]
  /\ UNCHANGED <<held, data, rxAsleep, kicking, lastSent, crash>>

Kernel(l) ==
  \/ KernelTakeFill(l) \/ \E p \in Arriving[l] : KernelReceive(l, p)
  \/ KernelRxSleep(l) \/ KernelTakeTx(l) \/ KernelSend(l) \/ KernelTxSleep(l)

-----------------------------------------------------------------------------
\* All buffers in the pool, both directions waiting for a first wakeup.
DpInit(pool) ==
  /\ held = [p \in Place |-> IF p = Pool THEN pool ELSE <<>>]
  /\ data = [b \in Buf |-> NoPacket]
  /\ rxAsleep = [l \in Link |-> FALSE] /\ txAsleep = [l \in Link |-> TRUE]
  /\ kicking = {} /\ lastSent = [l \in Link |-> NoPacket] /\ crash = "none"

\* The pool holds every buffer once, in the order MmapArea::new made them.
Init ==
  \E pool \in [1 .. Cardinality(Buf) -> Buf] :
    /\ \A i, j \in DOMAIN pool : pool[i] = pool[j] => i = j
    /\ \A b \in Buf : \E i \in DOMAIN pool : pool[i] = b
    /\ DpInit(pool)

Batch == 0 .. MaxBatch

Client ==
  /\ crash = "none"
  /\ \/ \E l \in Link :
          \/ \E v \in Vec, b \in Batch : Fill(l, v, b) \/ Service(l, v, b)
          \/ \E d \in Deque, b \in Batch : TryRecv(l, d, b) \/ TrySend(l, d, b)
          \/ WakeupIfRequired(l)
          \/ \E ok \in BOOLEAN : Wake(l, ok)
     \/ \E v \in Vec, b \in Batch : PoolGet(v, b) \/ PoolPut(v, b)
     \/ \E v \in Vec, d \in Deque :
          \/ Discard(d, v)
          \/ \E b \in Batch, p \in Packet : Generate(v, d, b, p)
     \/ \E d \in Deque : \E frame \in [At(D(d)) -> Packet] : Rewrite(d, frame)

Next == Client \/ \E l \in Link : Kernel(l)

Spec == Init /\ [][Next]_dpVars

-----------------------------------------------------------------------------
(* Properties.                                                             *)

\* Every place holds buffers, and no more of them than it has room for: the
\* NIC takes TX frames while completions are pending, and every frame it has
\* still finds an entry in the completion ring.
DpTypeOK ==
  /\ held \in [Place -> Seq(Buf)]
  /\ \A d \in Deque : Count(D(d)) <= PendingLen
  /\ \A l \in Link :
       /\ Count(Fq(l)) <= RingSize /\ Count(Rx(l)) <= RingSize
       /\ Count(Tx(l)) <= RingSize /\ Count(NicTx(l)) + Count(Cq(l)) <= RingSize
  /\ data \in [Buf -> Packet \cup {NoPacket}]
  /\ rxAsleep \in [Link -> BOOLEAN] /\ txAsleep \in [Link -> BOOLEAN]
  /\ kicking \subseteq Link
  /\ lastSent \in [Link -> Packet \cup {NoPacket}]
  /\ crash \in {"none", "fill", "recv", "sendto"}

\* No call, of the crate, the pool or the kernel, ever puts a buffer in two
\* places or in one place twice: two owners would write the same memory.
Exclusive ==
  \A p, r \in Place : \A i \in DOMAIN held[p], j \in DOMAIN held[r] :
    held[p][i] = held[r][j] => p = r /\ i = j

\* No buffer is leaked: the ones popped were submitted, the ones peeked were
\* pushed, whatever part of a batch a call could do.
NothingLost == \A b \in Buf : \E p \in Place : \E i \in DOMAIN held[p] : held[p][i] = b

Ownership == Exclusive /\ NothingLost

\* The todo! of fill and the "there should be space" of try_recv are out of
\* reach; sendto's panic is the only one of the library.
NoLibraryPanic == crash \in {"none", "sendto"}

\* The places of frames: received and not yet handed back, or on their way to
\* the wire.
FramePlaces == {D(d) : d \in Deque} \cup UNION {{Rx(l), Tx(l), NicTx(l)} : l \in Link}

\* A frame has a packet in it: no buffer that came back from the completion
\* ring, or was never written to, is sent, and nobody empties one on its way.
FramesFull == \A p \in FramePlaces : \A b \in At(p) : data[b] \in Packet

\* Frames in a TX ring that nobody will ask the sleeping driver to send.
Stranded(l) == txAsleep[l] /\ held[Tx(l)] # <<>> /\ l \notin kicking

\* The test of the flag that asked for frames to be sent, in vain: the errnos
\* sendto may return are passed over.
KickRefused(l) == l \in kicking \ kicking' /\ NeedsWakeup(l) /\ SendtoOutcome # {"ok"}

\* The driver stops although there are frames, as none could be completed.
StopsFull(l) == ~txAsleep[l] /\ txAsleep'[l] /\ ~CompletionRoom(l)

\* In no other way are frames left to a sleeping driver, whatever calls come in
\* whatever order, and whenever the driver falls asleep between a submit and
\* the test of the flag (try_send, wakeup_if_required).
TxKicked ==
  [][\A l \in Link : ~Stranded(l) /\ Stranded(l)' => KickRefused(l) \/ StopsFull(l)]_dpVars
=============================================================================
