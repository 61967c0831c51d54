------------------------------- MODULE Worker -------------------------------
(***************************************************************************)
(* The packet loops of the five example programs: do_worker of             *)
(* l2fwd-2link-multicore.rs and of rxdrop.rs, and the loops in main of     *)
(* l2fwd-2link.rs, l2fwd-1link.rs and dump.rs.  Each gets its buffers,     *)
(* fills its one or two links, and then for ever receives, hands the       *)
(* frames on and refills what was received.                                *)
(*                                                                         *)
(* Every step is a call of Datapath, with the arguments the program        *)
(* passes; the kernel acts between any two of them.  The programs share    *)
(* most steps; their loops, at the end, say which ones each takes.         *)
(***************************************************************************)
EXTENDS Datapath

CONSTANTS
  Program,        \* the programs considered
  AreaOrder,      \* the buffers in the order MmapArea::new made them
  StartBufs,      \* START_BUFS, what a worker asks the pool for
  BufNum,         \* BufNum[p]: --bufnum of program p, which has its own area
  InitialFill,    \* buffers a worker gives to each link at the start
  FillThreshold,  \* FILL_THRESHOLD
  BatchSize,      \* SOCKET_BATCH_SIZE, SERVICE_BATCH_SIZE and --batch-size
  Swap            \* Swap[p]: packet p with its two MAC addresses swapped

Forwarders == {"multicore", "2link", "1link"}
Workers    == {"multicore", "rxdrop"}

\* The initial fill of a worker is at least the threshold (RING_SIZE against
\* 64): with less, a link that received everything would not be refilled.  A
\* batch fits into a ring: reserve gives room for all of it or for nothing.
ASSUME WorkerAssumption ==
  /\ Program \subseteq Forwarders \cup {"rxdrop", "dump"}
  /\ Link = {0, 1} /\ Vec = {"bufs"} /\ Deque = Link
  /\ AreaOrder \in [1 .. Cardinality(Buf) -> Buf]
  /\ \A b \in Buf : \E i \in DOMAIN AreaOrder : AreaOrder[i] = b
  /\ \A i, j \in DOMAIN AreaOrder : AreaOrder[i] = AreaOrder[j] => i = j
  /\ InitialFill \in 1 .. RingSize /\ FillThreshold \in 1 .. InitialFill
  /\ InitialFill <= MaxBatch /\ StartBufs \in 1 .. MaxBatch
  /\ BatchSize \in 1 .. Least(MaxBatch, RingSize)
  /\ BufNum \in [Program \ Workers -> 1 .. Least(MaxBatch, Cardinality(Buf))]
  /\ Swap \in [Packet -> Packet] /\ \A p \in Packet : Swap[Swap[p]] = p

VARIABLES
  program, \* the program that runs
  pc,      \* what its thread does next
  pos,     \* the link it is serving
  deficit  \* fq_deficit: received from each link and not yet replaced

myVars == <<program, pc, pos, deficit>>
wVars  == <<held, data, rxAsleep, txAsleep, kicking, lastSent, crash, myVars>>

Links == IF program \in {"multicore", "2link"} THEN Link ELSE {0}

\* pos = (pos + 1) % 2.
Other(l) == (l + 1) % 2

\* After link l comes the other one, if there is one.
NextLink(l) == IF program \in {"multicore", "2link"} THEN Other(l) ELSE l

\* Where frames of link l go: to the other link, or back.
OutLink(l) == IF program = "1link" THEN l ELSE Other(l)

-----------------------------------------------------------------------------
(* Startup.                                                                *)

\* A worker asks the pool; the others have all buffers of their area.
GetBufs ==
  /\ pc = "get"
  /\ PoolGet("bufs", IF program \in Workers THEN StartBufs ELSE BufNum[program])
  /\ pc' = "initial_fill"
  /\ UNCHANGED <<program, pos, deficit>>

\* Mutated: each of the two links is to have all buffers.
TwoLinkFill_All == Least(BufNum[program], RingSize)

\* initial_fill_num of l2fwd-2link.rs, fill_size of dump.rs, and the
\* argument of fill in l2fwd-1link.rs.
TwoLinkFill == Least(BufNum[program] \div 2, RingSize)
EchoFill    == Least(RingSize, BufNum[program])
DumpFill    == Least(RingSize, BufNum[program])

Wanted ==
  CASE program \in Workers -> InitialFill
    [] program = "2link"   -> TwoLinkFill
    [] program = "1link"   -> EchoFill
    [] program = "dump"    -> DumpFill

\* The first step of each program's loop, for link l.
LoopStart(l) ==
  CASE program = "multicore" -> IF l = 0 THEN "command" ELSE "service"
    [] program = "rxdrop"    -> "command"
    [] program = "2link"     -> "service"
    [] program = "1link"     -> "tick"
    [] program = "dump"      -> "receive"

\* A fill that is not complete panics.
FillLink ==
  /\ pc = "initial_fill"
  /\ Fill(pos, "bufs", Wanted)
  /\ pos' = NextLink(pos)
  /\ pc' = IF Filled(pos, "bufs", Wanted) # Wanted THEN "panicked"
           ELSE IF pos' # 0 THEN "initial_fill" ELSE LoopStart(0)
  /\ UNCHANGED <<program, deficit>>

-----------------------------------------------------------------------------
(* The steps of the loops.                                                 *)

\* No command, or GetStats: neither touches a buffer.
NoExit(then) ==
  /\ pc = "command"
  /\ pc' = then
  /\ UNCHANGED <<dpVars, program, pos, deficit>>

Exit ==
  /\ pc = "command"
  /\ pc' = "exited"
  /\ UNCHANGED <<dpVars, program, pos, deficit>>

\* l2fwd-1link.rs looks at the time, sends its counters once a second, and
\* ends after the 300th.
Tick ==
  /\ pc = "tick"
  /\ pc' = "service"
  /\ UNCHANGED <<dpVars, program, pos, deficit>>

LastTick ==
  /\ pc = "tick"
  /\ pc' = "exited"
  /\ UNCHANGED <<dpVars, program, pos, deficit>>

ServiceCq ==
  /\ pc = "service"
  /\ Service(pos, "bufs", BatchSize)
  /\ pc' = "receive"
  /\ UNCHANGED <<program, pos, deficit>>

\* Mutated: what was received is not charged to the link.
Charge_Forgotten(l, n) == deficit

\* stats and fq_deficit after n frames were received.
Charge(l, n) == [deficit EXCEPT ![l] = @ + n]

Receive(then) ==
  LET n == Received(pos, pos, BatchSize)
  IN  /\ pc = "receive"
      /\ TryRecv(pos, pos, BatchSize)
      /\ deficit' = Charge(pos, n)
      /\ pc' = IF n > 0 THEN then ELSE "wake"
      /\ UNCHANGED <<program, pos>>

\* Mutated: the fill ring's flag is ignored.
RxNeedsWakeup_Never(l) == FALSE

\* UmemFillQueue::needs_wakeup.
RxNeedsWakeup(l) == rxAsleep[l]

\* Nothing received: when the fill ring asks for it, poll.
WakeRx(ok) ==
  /\ pc = "wake"
  /\ IF RxNeedsWakeup(pos) THEN Wake(pos, ok) ELSE UNCHANGED dpVars
  /\ pc' = "hand_on"
  /\ UNCHANGED <<program, pos, deficit>>

\* swap_macs goes over the whole deque.
SwapMacs ==
  /\ pc = "swap"
  /\ Rewrite(pos, [b \in At(D(pos)) |-> Swap[data[b]]])
  /\ pc' = "hand_on"
  /\ UNCHANGED <<program, pos, deficit>>

\* forward() does not call try_send for an empty deque.
Forward ==
  /\ pc = "hand_on"
  /\ IF held[D(pos)] = <<>>
     THEN pc' = "refill" /\ UNCHANGED dpVars
     ELSE pc' = "kick" /\ TrySend(OutLink(pos), pos, BatchSize)
  /\ UNCHANGED <<program, pos, deficit>>

Kick ==
  /\ pc = "kick"
  /\ WakeupIfRequired(OutLink(pos))
  /\ pc' = IF crash' = "none" THEN "refill" ELSE "panicked"
  /\ UNCHANGED <<program, pos, deficit>>

\* rxdrop.rs and dump() of dump.rs: everything goes back to the Vec.
HandBack ==
  /\ pc = "hand_on"
  /\ Discard(pos, "bufs")
  /\ pc' = "refill"
  /\ UNCHANGED <<program, pos, deficit>>

\* Mutated: nothing is taken off; the whole deficit is, filled or not.
Repaid_None(n)       == 0
Repaid_WrittenOff(n) == deficit[pos]

\* What a fill of n buffers takes off the deficit.
Repaid(n) == n

Refill(threshold) ==
  /\ pc = "refill"
  /\ IF deficit[pos] >= threshold
     THEN /\ Fill(pos, "bufs", deficit[pos])
          /\ deficit' = [deficit EXCEPT
               ![pos] = @ - Repaid(Filled(pos, "bufs", deficit[pos]))]
     ELSE UNCHANGED <<dpVars, deficit>>
  /\ pos' = NextLink(pos)
  /\ pc' = LoopStart(pos')
  /\ UNCHANGED program

Poll == \E ok \in BOOLEAN : WakeRx(ok)

-----------------------------------------------------------------------------
(* The loops.                                                              *)

\* l2fwd-2link-multicore.rs: a command once for both links.
MulticoreLoop ==
  /\ program = "multicore"
  /\ \/ NoExit("service") \/ ServiceCq \/ Receive("hand_on") \/ Poll
     \/ Forward \/ Kick \/ Refill(FillThreshold)

\* l2fwd-2link.rs: no commands.
TwoLinkLoop ==
  /\ program = "2link"
  /\ \/ ServiceCq \/ Receive("hand_on") \/ Poll
     \/ Forward \/ Kick \/ Refill(FillThreshold)

\* l2fwd-1link.rs: when something was received, the addresses are swapped;
\* refilled as soon as anything is owed.
EchoLoop ==
  /\ program = "1link"
  /\ \/ Tick \/ ServiceCq \/ Receive("swap") \/ Poll \/ SwapMacs
     \/ Forward \/ Kick \/ Refill(1)

\* rxdrop.rs.
DropLoop ==
  /\ program = "rxdrop"
  /\ \/ NoExit("receive") \/ Receive("hand_on") \/ Poll
     \/ HandBack \/ Refill(FillThreshold)

\* dump.rs.
DumpLoop ==
  /\ program = "dump"
  /\ \/ Receive("hand_on") \/ Poll
     \/ HandBack \/ Refill(FillThreshold)

-----------------------------------------------------------------------------
WorkerInit ==
  /\ DpInit(AreaOrder)
  /\ program \in Program
  /\ pc = "get" /\ pos = 0 /\ deficit = [l \in Link |-> 0]

\* The thread goes on.  Exit is the controller's wish, and LastTick a matter
\* of time.
Step ==
  \/ GetBufs \/ FillLink
  \/ MulticoreLoop \/ TwoLinkLoop \/ EchoLoop \/ DropLoop \/ DumpLoop

WorkerNext ==
  \/ Step \/ Exit \/ LastTick
  \/ \E l \in Links : Kernel(l) /\ UNCHANGED myVars

WorkerSpec == WorkerInit /\ [][WorkerNext]_wVars

\* The thread is scheduled.  A driver that is not asleep takes buffers and
\* frames and sends what it took; packets need not arrive.  poll and sendto
\* do not fail for ever.
WorkerFairness ==
  /\ WF_wVars(Step)
  /\ \A l \in Link :
       /\ WF_wVars(~rxAsleep[l] /\ KernelTakeFill(l) /\ UNCHANGED myVars)
       /\ WF_wVars(KernelTakeTx(l) /\ UNCHANGED myVars)
       /\ WF_wVars(KernelSend(l) /\ UNCHANGED myVars)
       /\ SF_wVars(pos = l /\ WakeRx(TRUE))
       /\ SF_wVars(pos = l /\ Kick /\ ~txAsleep'[OutLink(l)])

FairWorkerSpec == WorkerSpec /\ WorkerFairness

-----------------------------------------------------------------------------
(* Properties.                                                             *)

\* The loop is at one of its steps and links, and a refill never asks for more
\* buffers than the initial fill gave: fq_deficit, a usize, stays at or above zero.
WorkerTypeOK ==
  /\ DpTypeOK
  /\ program \in Program
  /\ pc \in {"get", "initial_fill", "command", "tick", "service", "receive",
             "wake", "swap", "hand_on", "kick", "refill", "exited", "panicked"}
  /\ pos \in Links
  /\ deficit \in [Link -> 0 .. Wanted]

Starting == pc \in {"get", "initial_fill"}
Stopped  == pc \in {"exited", "panicked"}

\* The buffers the receive side of link l has.
Supply(l) == Count(Fq(l)) + Count(NicRx(l)) + Count(Rx(l))

\* fq_deficit is exactly what the link's receive side lacks: no received
\* frame is refilled twice, none is forgotten, and the refill always fits.
DeficitExact ==
  ~Starting /\ pc # "panicked" =>
    \A l \in Links :
      Supply(l) + deficit[l] = Wanted

\* The initial fill is complete, whatever --bufnum is and however many entries
\* a ring has: but for sendto's, the only panic left is that of a worker whose
\* pool has fewer buffers than its links are to have.
FillsComplete ==
  pc = "panicked" /\ crash = "none" =>
    /\ program \in Workers
    /\ Least(StartBufs, Cardinality(Buf)) < Cardinality(Links) * InitialFill

\* A packet, whichever of its MAC addresses comes first.
Frame(p) == {p, Swap[p]}

\* The frames on their way from link l to where they go, oldest first.
InFlight(l) ==
  LET frames == held[NicTx(OutLink(l))] \o held[Tx(OutLink(l))]
                \o held[D(l)] \o held[Rx(l)]
  IN  IF program \in Forwarders
      THEN [k \in DOMAIN frames |-> Frame(data[frames[k]])]
      ELSE <<>>
LastOut(l) == IF lastSent[l] = NoPacket THEN {} ELSE Frame(lastSent[l])

Pipe0 == INSTANCE BoundedFifo WITH
  q <- InFlight(0), out <- LastOut(OutLink(0)),
  Value <- {Frame(p) : p \in Packet}, NoValue <- {}, Capacity <- Cardinality(Buf)
Pipe1 == INSTANCE BoundedFifo WITH
  q <- InFlight(1), out <- LastOut(OutLink(1)),
  Value <- {Frame(p) : p \in Packet}, NoValue <- {}, Capacity <- Cardinality(Buf)

\* Each direction is a FIFO queue of packets, from the RX ring through the
\* deque and the TX ring: what is received leaves on the other link, or the
\* same one, once, in order, with the contents it came with.
ForwardsInOrder == Pipe0!Spec /\ Pipe1!Spec

\* While the thread runs, what was received is sent.
FramesLeave ==
  <>Stopped \/ (Pipe0!Drained /\ Pipe1!Drained)

\* While the thread runs, a link without buffers to receive into gets some,
\* whether its frames are forwarded, sent back or dropped.
ReceiveGoesOn ==
  \A l \in Link :
    held[Fq(l)] = <<>> /\ held[NicRx(l)] = <<>> ~>
      held[Fq(l)] # <<>> \/ held[NicRx(l)] # <<>> \/ Stopped \/ l \notin Links

\* The driver takes every buffer it was given, however often the poll failed.
InFill(l, b) == \E k \in DOMAIN held[Fq(l)] : held[Fq(l)][k] = b
FillTaken == \A l \in Link, b \in Buf : InFill(l, b) ~> ~InFill(l, b) \/ Stopped

\* "swaps the MAC addresses and sends the packets back out the same link":
\* every frame l2fwd-1link.rs sends is one that arrived, with its addresses
\* swapped.
SentSwapped ==
  program = "1link" =>
    lastSent[0] \in {NoPacket} \cup {Swap[p] : p \in Arriving[0]}
=============================================================================
