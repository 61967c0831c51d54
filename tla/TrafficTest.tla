---------------------------- MODULE TrafficTest ----------------------------
(***************************************************************************)
(* The traffic test runner, tests/common.rs: two threads, one at each end  *)
(* of a veth pair, send and receive what the shared test object            *)
(* (BiDirHash) asks for, and main gives its verdict when both have ended.  *)
(*                                                                         *)
(* The rings are queues (XskRing), buffers are only counted (Datapath says *)
(* who owns them), and the driver is awake (Worker).  Every use of the     *)
(* test object is one step: the code does it under the mutex.              *)
(***************************************************************************)
EXTENDS BiDirHash, FiniteSets

CONSTANTS
  BufNum,           \* BUF_NUM, the buffers of each thread
  RingSize,         \* RING_SIZE, also the initial fill
  PendingLen,       \* PENDING_LEN
  SocketBatch,      \* SOCKET_BATCH_SIZE
  FillThreshold, FillBatch, ServiceThreshold, ServiceBatch,
  MaxTime,          \* bound: the clock stops here
  Faults,           \* what the veth does: "drop", "dup", "reorder", "corrupt"
  MaxFaults,        \* bound on their number
  DamagedSeqs       \* sequence numbers the first 8 bytes may show when damaged

\* A thread always has the buffers of a burst, however many wait for the
\* thresholds: 512 + 63 + 8 of 4096.
ASSUME TrafficAssumption ==
  /\ RingSize \in Nat \ {0} /\ PendingLen \in Nat /\ PendingLen >= BurstSize
  /\ FillThreshold \in 1 .. RingSize /\ ServiceThreshold \in Nat \ {0}
  /\ ServiceThreshold <= RingSize
  /\ FillBatch \in Nat /\ FillBatch >= FillThreshold /\ ServiceBatch \in Nat \ {0}
  /\ SocketBatch \in Nat \ {0}
  /\ BufNum \in Nat /\ BufNum >= RingSize + (ServiceThreshold - 1) + BurstSize
  /\ MaxTime \in Nat /\ MaxTime > EndTime
  /\ Faults \subseteq {"drop", "dup", "reorder", "corrupt"} /\ MaxFaults \in Nat
  /\ DamagedSeqs \subseteq Nat

VARIABLES
  pc, now,                \* of each thread: its next step and the time it read
  bufs,                   \* how many buffers are in its Vec
  pendSend, pendRecv,     \* pending_send and pending_receive
  fq, cq,                 \* how many buffers are in its fill and completion ring
  tx, rx,                 \* the packets in its TX and RX ring
  cqDeficit, fqDeficit,   \* cq_deficit and fq_deficit
  clock, faults, verdict, \* the time, the faults so far, what main found
  got,                    \* history: the packets each port passed to the test
  unchecked               \* history: where in got are those no hash was found for

sockVars   == <<fq, cq, tx, rx>>
threadVars == <<bufs, pendSend, pendRecv, cqDeficit, fqDeficit>>
worldVars  == <<clock, faults, verdict>>
history    == <<got, unchecked>>
vars == <<testVars, pc, now, threadVars, sockVars, worldVars, history>>

-----------------------------------------------------------------------------
(* The thread of port p, do_worker.                                        *)

At(p, step)   == pc[p] = step
Goto(p, step) == pc' = [pc EXCEPT ![p] = step]

\* fill of n buffers: those the Vec has, if the ring has room for them.
Filled(p, n) ==
  LET batch == Smaller(bufs[p], n)
  IN  IF fq[p] + batch <= RingSize THEN batch ELSE 0

Fill(p, n) ==
  /\ bufs' = [bufs EXCEPT ![p] = @ - Filled(p, n)]
  /\ fq' = [fq EXCEPT ![p] = @ + Filled(p, n)]

\* An incomplete fill panics.
InitialFill(p) ==
  /\ At(p, "fill")
  /\ Fill(p, RingSize)
  /\ Goto(p, IF Filled(p, RingSize) = RingSize THEN "time" ELSE "exited")
  /\ UNCHANGED <<testVars, now, pendSend, pendRecv, cqDeficit, fqDeficit,
                 cq, tx, rx, worldVars, history>>

ReadTime(p) ==
  /\ At(p, "time")
  /\ now' = [now EXCEPT ![p] = clock]
  /\ Goto(p, "done")
  /\ UNCHANGED <<testVars, threadVars, sockVars, worldVars, history>>

CheckDone(p) ==
  /\ At(p, "done")
  /\ NoteDone(now[p])
  /\ Goto(p, IF IsDone(now[p]) THEN "exited" ELSE "service")
  /\ UNCHANGED <<now, threadVars, sockVars, worldVars, history>>

\* Mutated: the deficit is paid in full.
Serviced_All(p) == cqDeficit[p]

Serviced(p) == Smaller(ServiceBatch, cq[p])

Service(p) ==
  /\ At(p, "service")
  /\ IF cqDeficit[p] >= ServiceThreshold
     THEN /\ bufs' = [bufs EXCEPT ![p] = @ + Smaller(ServiceBatch, cq[p])]
          /\ cq' = [cq EXCEPT ![p] = @ - Smaller(ServiceBatch, cq[p])]
          /\ cqDeficit' = [cqDeficit EXCEPT ![p] = @ - Serviced(p)]
     ELSE UNCHANGED <<bufs, cq, cqDeficit>>
  /\ Goto(p, "recv")
  /\ UNCHANGED <<testVars, now, pendSend, pendRecv, fqDeficit, fq, tx, rx,
                 worldVars, history>>

First(s, n) == SubSeq(s, 1, n)
Rest(s, n)  == SubSeq(s, n + 1, Len(s))

\* Mutated: the batch is charged, not what came.
Charged_Batch(n) == SocketBatch

\* What n received packets add to fq_deficit.
Charged(n) == n

TryRecv(p) ==
  LET n == Smaller(Smaller(PendingLen - Len(pendRecv[p]), SocketBatch), Len(rx[p]))
  IN  /\ At(p, "recv")
      /\ pendRecv' = [pendRecv EXCEPT ![p] = @ \o First(rx[p], n)]
      /\ rx' = [rx EXCEPT ![p] = Rest(@, n)]
      /\ fqDeficit' = [fqDeficit EXCEPT ![p] = @ + Charged(n)]
      /\ Goto(p, "receive")
      /\ UNCHANGED <<testVars, now, bufs, pendSend, cqDeficit, fq, cq, tx,
                     worldVars, history>>

\* Everything received is checked and its buffer goes back to the Vec.
TestReceive(p) ==
  /\ At(p, "receive")
  /\ Receive(p, pendRecv[p])
  /\ bufs' = [bufs EXCEPT ![p] = @ + Len(pendRecv[p])]
  /\ pendRecv' = [pendRecv EXCEPT ![p] = <<>>]
  /\ got' = [got EXCEPT ![p] = @ \o pendRecv[p]]
  /\ unchecked' = [unchecked EXCEPT ![p] = @ \cup
       {i \in Len(got[p]) + 1 .. Len(got'[p]) : ~Known(Other(p), got'[p][i].seq)}]
  /\ Goto(p, "transmit")
  /\ UNCHANGED <<now, pendSend, cqDeficit, fqDeficit, sockVars, worldVars>>

TestTransmit(p) ==
  LET room == Smaller(PendingLen - Len(pendSend[p]), bufs[p])
      n    == Queued(p, now[p], room)
  IN  /\ At(p, "transmit")
      /\ Transmit(p, now[p], room)
      /\ bufs' = [bufs EXCEPT ![p] = @ - n]
      /\ pendSend' = [pendSend EXCEPT ![p] = @ \o NewPackets(p, n)]
      /\ Goto(p, "send")
      /\ UNCHANGED <<now, pendRecv, cqDeficit, fqDeficit, sockVars, worldVars, history>>

TrySend(p) ==
  LET batch == Smaller(Len(pendSend[p]), SocketBatch)
      n == IF Len(tx[p]) + batch <= RingSize THEN batch ELSE 0
  IN  /\ At(p, "send")
      /\ tx' = [tx EXCEPT ![p] = @ \o First(pendSend[p], n)]
      /\ pendSend' = [pendSend EXCEPT ![p] = Rest(@, n)]
      /\ cqDeficit' = [cqDeficit EXCEPT ![p] = @ + n]
      /\ Goto(p, "refill")
      /\ UNCHANGED <<testVars, now, bufs, pendRecv, fqDeficit, fq, cq, rx,
                     worldVars, history>>

Refill(p) ==
  LET n == Smaller(FillBatch, fqDeficit[p])
  IN  /\ At(p, "refill")
      /\ IF fqDeficit[p] >= FillThreshold
         THEN /\ Fill(p, n)
              /\ fqDeficit' = [fqDeficit EXCEPT ![p] = @ - Filled(p, n)]
         ELSE UNCHANGED <<bufs, fq, fqDeficit>>
      /\ Goto(p, "time")
      /\ UNCHANGED <<testVars, now, pendSend, pendRecv, cqDeficit, cq, tx, rx,
                     worldVars, history>>

-----------------------------------------------------------------------------
(* The veth pair.  A thread that ended has closed its socket.              *)

Open(p) == ~At(p, "exited")

\* Copies of pkt reach port p; those without a buffer or room are dropped.
Arrive(p, pkt, copies) ==
  LET n == IF Open(p)
           THEN Smaller(copies, Smaller(fq[p], RingSize - Len(rx[p]))) ELSE 0
  IN  /\ rx' = [rx EXCEPT ![p] = @ \o [k \in 1 .. n |-> pkt]]
      /\ fq' = [fq EXCEPT ![p] = @ - n]

\* Frame i of the TX ring of port p crosses, and its buffer is completed.
Cross(p, i, pkt, copies) ==
  /\ Open(p) /\ i \in DOMAIN tx[p] /\ cq[p] < RingSize
  /\ tx' = [tx EXCEPT ![p] = RemoveAt(@, i)]
  /\ cq' = [cq EXCEPT ![p] = @ + 1]
  /\ Arrive(Other(p), pkt, copies)
  /\ UNCHANGED <<testVars, pc, now, threadVars, clock, verdict, history>>

Carry(p) == tx[p] # <<>> /\ Cross(p, 1, Head(tx[p]), 1) /\ UNCHANGED faults

\* What damage makes of a packet.  receive takes the number from the first 8
\* bytes: damage that spares them leaves it, damage that does not changes it.
Damaged(pkt) == [seq: DamagedSeqs \cup {pkt.seq}, intact: {FALSE}]

Misbehave(p) ==
  /\ tx[p] # <<>> /\ faults < MaxFaults /\ faults' = faults + 1
  /\ \/ "drop" \in Faults /\ Cross(p, 1, Head(tx[p]), 0)
     \/ "dup" \in Faults /\ Cross(p, 1, Head(tx[p]), 2)
     \/ "reorder" \in Faults /\ Len(tx[p]) > 1 /\ Cross(p, 2, tx[p][2], 1)
     \/ "corrupt" \in Faults /\ \E bad \in Damaged(Head(tx[p])) : Cross(p, 1, bad, 1)

Tick ==
  /\ clock < MaxTime
  /\ clock' = clock + 1
  /\ UNCHANGED <<testVars, pc, now, threadVars, sockVars, faults, verdict, history>>

-----------------------------------------------------------------------------
\* The end of run: both threads are joined, then finalize.
Finalize ==
  /\ verdict = "none" /\ \A p \in Port : At(p, "exited")
  /\ verdict' = IF Passed THEN "passed" ELSE "failed"
  /\ UNCHANGED <<testVars, pc, now, threadVars, sockVars, clock, faults, history>>

\* gen_worker_config for both ports: every thread has taken its buffers.
Init ==
  /\ TestInit
  /\ pc = [p \in Port |-> "fill"] /\ now = [p \in Port |-> 0]
  /\ bufs = [p \in Port |-> BufNum]
  /\ pendSend = [p \in Port |-> <<>>] /\ pendRecv = [p \in Port |-> <<>>]
  /\ fq = [p \in Port |-> 0] /\ cq = [p \in Port |-> 0]
  /\ tx = [p \in Port |-> <<>>] /\ rx = [p \in Port |-> <<>>]
  /\ cqDeficit = [p \in Port |-> 0] /\ fqDeficit = [p \in Port |-> 0]
  /\ clock = 0 /\ faults = 0 /\ verdict = "none" /\ got = [p \in Port |-> <<>>]
  /\ unchecked = [p \in Port |-> {}]

Thread(p) ==
  \/ InitialFill(p) \/ ReadTime(p) \/ CheckDone(p) \/ Service(p) \/ TryRecv(p)
  \/ TestReceive(p) \/ TestTransmit(p) \/ TrySend(p) \/ Refill(p)

Next ==
  \/ \E p \in Port : Thread(p) \/ Carry(p) \/ Misbehave(p)
  \/ Tick \/ Finalize

Spec == Init /\ [][Next]_vars

-----------------------------------------------------------------------------
(* Properties.                                                             *)

Packet == [seq: Nat, intact: BOOLEAN]
Step == {"fill", "time", "done", "service", "recv", "receive", "transmit",
         "send", "refill", "exited"}

\* Every ring and deque of tests/common.rs stays within its size, and the
\* two deficits are never taken below zero (`-=' on a usize).
TrafficTypeOK ==
  /\ portState \in [Port -> PortState] /\ done \in BOOLEAN /\ doneTime \in Nat
  /\ pc \in [Port -> Step] /\ now \in [Port -> 0 .. MaxTime]
  /\ clock \in 0 .. MaxTime /\ faults \in 0 .. MaxFaults
  /\ verdict \in {"none", "passed", "failed"}
  /\ pendSend \in [Port -> Seq(Packet)] /\ pendRecv \in [Port -> Seq(Packet)]
  /\ tx \in [Port -> Seq(Packet)] /\ rx \in [Port -> Seq(Packet)]
  /\ got \in [Port -> Seq(Packet)] /\ unchecked \in [Port -> SUBSET Nat]
  /\ fq \in [Port -> 0 .. RingSize] /\ cq \in [Port -> 0 .. RingSize]
  /\ bufs \in [Port -> 0 .. BufNum]
  /\ cqDeficit \in [Port -> 0 .. BufNum] /\ fqDeficit \in [Port -> 0 .. BufNum]
  /\ \A p \in Port :
       /\ Len(pendSend[p]) <= PendingLen /\ Len(pendRecv[p]) <= PendingLen
       /\ Len(tx[p]) <= RingSize /\ Len(rx[p]) <= RingSize

Started(p) == ~At(p, "fill")

\* The two deficits of do_worker are what the rings really lack: cq_deficit
\* the buffers sent and not serviced, fq_deficit those received and not
\* filled, through partial batches and refused fills; and no buffer is lost.
DeficitsTrue ==
  \A p \in Port :
    /\ bufs[p] + Len(pendSend[p]) + Len(tx[p]) + cq[p]
         + fq[p] + Len(rx[p]) + Len(pendRecv[p]) = BufNum
    /\ cqDeficit[p] = Len(tx[p]) + cq[p]
    /\ Started(p) => fq[p] + Len(rx[p]) + fqDeficit[p] = RingSize

\* A thread that has packets left can send them once its TX ring has drained:
\* buffers waiting for the two thresholds never leave less than a burst.
CanGoOn ==
  \A p \in Port :
    At(p, "transmit") /\ pendSend[p] = <<>> /\ tx[p] = <<>>
      /\ cqDeficit[p] < ServiceThreshold =>
        PacketCount(p, Smaller(PendingLen, bufs[p])) > 0 \/ Unsent(p) = 0

\* A veth that only drops what finds no buffer raises no other complaint
\* than the count: nothing is out of order, damaged or duplicated.
NoFalseAlarm ==
  faults = 0 =>
    \A p \in Port :
      /\ portState[p].out_of_order = 0 /\ portState[p].bad_hash = 0
      /\ portState[p].duplicated = 0

Rising(s) == \A i, j \in DOMAIN s : i < j => s[i].seq < s[j].seq

\* What finalize's approval is worth, whatever the veth dropped, repeated,
\* reordered or damaged: each port was handed as many packets as were sent,
\* with rising numbers, each undamaged unless receive found no hash for its
\* number; and if it found one for all of them, exactly the packets the other
\* port made, each once.  A packet whose damaged number was not given out by
\* then goes unnoticed, as the first one showing 1 or as one of the last.
VerdictSound ==
  verdict = "passed" =>
    \A p \in Port :
      /\ Len(got[p]) = Total /\ Rising(got[p])
      /\ \A i \in DOMAIN got[p] : i \in unchecked[p] \/ got[p][i].intact
      /\ unchecked[p] = {} =>
           got[p] = [k \in 1 .. Total |-> [seq |-> k + 1, intact |-> TRUE]]

\* The queues on the way to port p.
Heading(p) == {pendRecv[p], rx[p], tx[Other(p)], pendSend[Other(p)]}

\* The counters of PortState say of the packets received what they seem to.
\* Only a damaged packet can escape the comparison of the hashes: an undamaged
\* one is in the other port's map before it can arrive, however the threads
\* interleave, and a damaged one whose number is there raises bad_hash.
Accounts ==
  /\ \A p \in Port :
       /\ portState[p].seq = portState[p].transmitted + 1
       /\ portState[p].received = Len(got[p])
       /\ \A s \in Heading(p) : \A i \in DOMAIN s :
            s[i].intact => Known(Other(p), s[i].seq)
       /\ unchecked[p] \subseteq DOMAIN got[p]
       /\ \A i \in DOMAIN got[p] :
            IF i \in unchecked[p]
            THEN ~got[p][i].intact
            ELSE /\ Known(Other(p), got[p][i].seq)
                 /\ portState[p].bad_hash = 0 => got[p][i].intact
       /\ portState[p].out_of_order = 0 =>
            /\ Rising(got[p])
            /\ \A i \in DOMAIN got[p] : got[p][i].seq <= portState[p].last_received_seq
       /\ verdict # "none" => At(p, "exited")
  /\ verdict = "passed" => Passed

\* How often the packets of port p were seen before.
Repeats(p) ==
  Cardinality({i \in DOMAIN got[p] : \E j \in 1 .. i - 1 : got[p][j] = got[p][i]})

\* finalize's "duplicated" counts the packets a port received more than once.
DuplicatesCounted == \A p \in Port : portState[p].duplicated = Repeats(p)
=============================================================================
