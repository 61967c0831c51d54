# afxdp-rs in TLA+

A verification development for the `afxdp` crate: the user-space half of AF_XDP
sockets (fill, completion, RX and TX rings over one memory area), the programs
under `examples/` that forward and drop frames with it, and the traffic test
under `tests/`. File names below are relative to the repository; `umem.rs` is
`src/umem.rs` of the crate, and so on.

## 1. The system

### Components

| component | state | operations | what must hold |
|---|---|---|---|
| fill and completion queue, `umem.rs` | the shared ring (entries, producer and consumer index), a private copy of both indexes | `fill`, `service`, `needs_wakeup` | entries are FIFO; nothing is read before it is submitted or overwritten before it is released; a partial batch loses nothing |
| socket, `socket.rs` | RX and TX ring, the fd | `try_recv`, `try_send` (submit, then kick the driver when asked to), `wake` (poll) | the same, and a submitted frame is sent |
| memory area, `mmap_area.rs` | the mapping and its buffers | `new`, drop | buffers are disjoint and inside the mapping; it outlives its users |
| pool, `buf_pool_vec.rs` | a Vec of buffers behind a mutex | `get`, `put`, `put_buf` | moves buffers, never copies or drops them |
| buffers, `buf_mmap.rs`, `buf_vec.rs` | address, length, slice | accessors, `set_len` | no two buffers stand for the same memory; a length stays within its chunk |
| `is_pow_of_two`, `util.rs` | - | pure | true exactly for the powers of two |
| forwarders, `l2fwd-2link-multicore.rs` `do_worker`; `l2fwd-2link.rs`, `l2fwd-1link.rs` main loops | a Vec, a deque per link, `fq_deficit` per link | initial fill, then for ever: command, service, receive, forward, refill | packets leave in order, once, with their contents (`l2fwd-1link.rs`: addresses swapped); links are refilled exactly; nothing stalls |
| controller and main, `l2fwd-2link-multicore.rs`, `rxdrop.rs` | command and response queue of two entries per worker, the last counters of each core, the CTRL-C flag | collect, print, ask or tell to exit; join | counters keep coming; the arithmetic never fails; the program ends after CTRL-C |
| drop worker `rxdrop.rs` `do_worker`, `dump.rs` main loop | the same, with one link | receive, hand the buffers back, refill | links are refilled exactly; nothing stalls |
| traffic test, `tests/common.rs`, `tests/bidir_hash.rs` | two threads over a veth pair, a shared test object | `done`, `transmit`, `receive`, `finalize` | its counts are right; what passes it has arrived in order and complete |
| kernel, driver, libbpf, rtrb (outside) | the other end of every ring, the need-wakeup flags | | |

### How they interact, and what is hard

A `BufMmap` is a unique handle of a piece of the memory area. It is created with
the area, and created *again*, from a raw address, whenever `service` or
`try_recv` takes an entry from a ring; it is consumed whenever `fill` or
`try_send` puts its address into one. The type system does not see this, so the
crate's correctness is an accounting argument: an address is in exactly one
place. The other end of every ring is the kernel, running at the same time,
talking through shared indexes that each side caches, and through two flags that
say the driver went to sleep. The programs add a second accounting argument
(`fq_deficit`) and a liveness argument (who wakes the driver, and when). The
multi-threaded programs add queues of two entries, refused pushes, threads that
may panic, and joins.

`PROJECT.json` lists the hazards one by one, with the line each bites at and the
properties that cover it.

## 2. The modules

| module | models | extends |
|---|---|---|
| `BoundedFifo` | what a ring, or a whole forwarding direction, promises: a bounded FIFO queue (abstract) | |
| `XskRing` | one ring, `fill` against `service`, at every access to shared memory | instantiates `BoundedFifo` |
| `XskRingProofs` | theorems about `XskRing` | `XskRing`, `TLAPS` |
| `Datapath` | where every buffer is; all calls of the crate, the pool, three things programs do with buffers, and the kernel | |
| `DatapathProofs` | theorems about `Datapath` | `Datapath`, `TLAPS` |
| `Worker` | the packet loops of the five programs, step by step, against the same kernel | `Datapath`; instantiates `BoundedFifo` |
| `WorkerProofs` | theorems about `Worker`: that it refines `Datapath`, the ledger, the initial fills | `Worker`, `DatapathProofs` |
| `ForwardProofs` | each direction of `Worker` implements `BoundedFifo` | `WorkerProofs` |
| `Control` | controller, workers, main, and their queues | |
| `ControlProofs` | theorems about `Control` | `Control`, `TLAPS` |
| `BiDirHash` | the test object of `bidir_hash.rs`: `done`, `transmit`, `receive`, `finalize` | |
| `TrafficTest` | the two threads and main of `tests/common.rs`, and the veth pair | `BiDirHash` |
| `TrafficTestProofs` | theorems about `TrafficTest`: its buffers, its counters, its verdict | `TrafficTest`, `TLAPS` |
| `Lifetime` | who keeps area, umems, sockets and handles alive: creation, failed creation, drops; `is_pow_of_two` | |
| `Buffers` | addresses, lengths and slices of the buffers of an area, on their way through the rings of `Lifetime` | `Lifetime` |
| `LifetimeProofs` | theorems about `Lifetime`, and about powers of two and their bits | `Lifetime`, `TLAPS` |
| `BuffersProofs` | theorems about `Buffers`: what a buffer stands for, and that its memory is mapped | `Buffers`, `LifetimeProofs` |
| `MCXskRing`, `MCDatapath`, `MCWorker`, `MCControl`, `MCTrafficTest`, `MCLifetime` | constants for TLC | the module of the same name (`MCLifetime`: `Buffers`) |

A module has the properties that a run checks; the invariants that only a proof
needs are defined in its `...Proofs` module, next to the lemmas about them.

### XskRing

`prod`, `cons` and `slots` are the shared memory; `pCachedProd`, `pCachedCons`
and `cCachedProd`, `cCachedCons` are the fields of libbpf's `xsk_ring_prod` and
`xsk_ring_cons`; `pIdx`, `pReady`, `pLeft` are `fill`'s `idx`, `ready` and the
iterations its loop has left, `cIdx`, `cReady`, `cLeft` those of `service`.
`ProducerReserve`, `ProducerWrite` (one iteration) and `ProducerSubmit` are the
three parts of `fill`; `ConsumerPeek`, `ConsumerRead` and `ConsumerRelease` those
of `service`. `try_send` and `try_recv` are the same loops over another entry
type. The inline functions of libbpf are modelled from their contract and marked
external. Indexes are u32: they count modulo `Size * Laps`, where 2^32 stands for
the product in the code. `overflowChecks` says which kind of build
it is, and never changes: with overflow checks, as in a debug build, `idx += 1`
panics at the last index; otherwise it wraps.

A real ring has the crate at one end and the kernel at the other; the module has
the crate's code at both ends, because the kernel follows the same protocol and
each end is the crate's in two of the four rings.

The pair of a write to `prod` and its reading on the other side is one atomic
access each; the acquire and release order that `xsk_ring_prod__submit` and
`xsk_cons_nb_avail` ask of the hardware is libbpf's and is taken as given.

### Datapath

`held` maps each place - the pool, each Vec and ArrayDeque of the program, each
link's fill, RX, TX and completion ring, and the frames the NIC has in hand - to
the sequence of buffers in it. `data` is what is in each buffer. `rxAsleep` and
`txAsleep` are the need-wakeup flags of the fill and TX rings. `kicking` are the
links whose `try_send` has submitted and not yet looked at the flag: the one
place where the kernel acting inside a call matters, so `TrySend` and
`WakeupIfRequired` are two steps. All other calls are one step. That is sound
because each looks at the other side once and publishes once; the interleavings
inside are those of `XskRing`, where every one of them is shown to be a FIFO
queue (`IsFifo`).

`Fill` keeps the `todo!` of an empty Vec and `TryRecv` the `panic!` of a wrapped
deque as outcomes (`crash`), so that it is a result, and no assumption, that they
do not happen. `sendto` may do its work ("ok"), be refused with one of the four
accepted errnos ("busy"), or fail in another way, which panics ("fatal").

`Client` is any program: any call, any batch size from 0 (half of a `--bufnum` of
1) to `MaxBatch`, any place, plus what `rxdrop.rs` (drain the deque into the Vec),
`bidir_hash.rs` (pop buffers, write packets, queue them) and `l2fwd-1link.rs`
(`Rewrite`: change all frames of a deque in place) do themselves. Kernel steps are external:
they are what the code assumes of a driver with need-wakeup: it takes buffers one
by one, sleeps when there are none, takes a TX frame only with an entry of the
completion ring reserved for it, and sets the flag when it stops.

### Worker

The loops of `l2fwd-2link-multicore.rs` and `rxdrop.rs` (`do_worker`) and of
`l2fwd-2link.rs`, `l2fwd-1link.rs` and `dump.rs` (`main`) as programs over
`Datapath`: `program` says which one runs, `pc` where it is, `pos` which link it
serves; `deficit` is `fq_deficit`. Each step is one call with the arguments of the
source; `Forward` and `Kick` are the two halves of `try_send`. The programs differ
in their buffers (`GetBufs`: the pool, or `--bufnum` of an area of their own), in
the initial fill (`Wanted`: RING_SIZE; `TwoLinkFill`, `EchoFill`, `DumpFill`), in
where frames go (`OutLink`, `HandBack`) and in when they refill (FILL_THRESHOLD,
or 1). `MulticoreLoop`, `TwoLinkLoop`, `EchoLoop`, `DropLoop` and `DumpLoop` say
which steps each loop has, with what follows each. `SwapMacs` is a `Rewrite` that
swaps the addresses of all frames in the deque, as `swap_macs` does; for the FIFO
property a packet and its swapped form are the same frame.

`WorkerAssumption` states what the constants of the programs give: the initial
fill of a worker (RING_SIZE, 2048) is at least FILL_THRESHOLD (64), and a batch
fits into a ring. The second can be broken from the command line
(`--batch-size`), and in `l2fwd-2link.rs` and `dump.rs` a small `--bufnum` may be
filled in but never refilled; see the hazards. `--bufnum` may be anything; that
`BufNum` is at most `MaxBatch` bounds only `MaxBatch`.

### Control

One entry per worker in `commands`, `responses` (rtrb queues, `QueueSize` entries,
a push refused when full) and `wpc`; `cpc` and `cpos` are where the controller is
and at whose queues. Pops and pushes are steps of their own. The counters of a
worker are one number; of time only whole seconds matter: `fresh` are the cores
whose entry in `map` is younger than the controller's last `sleep`, for which
`time_diff` may be 0. A worker may panic where it does (incomplete initial fill,
failed sendto), and `join` returns for a panicked thread, too. `coreOf` is the YAML
file: which core each worker has, and it may repeat one. `ClockSetBack` sets the
system clock back, once: the times in `map` are then in the future, and it may
take any number of sleeps until they are a second old again. The map goes with
the controller (`MapDropped`).
`DiffPanics` is the overflow panic of a debug build; a release build would print
a wrapped rate instead.

### BiDirHash and TrafficTest

`portState` is the array of `PortState` with the source's field names, `done` and
`doneTime` the two fields the end of the test depends on. The map `hashes` of a
port has the sequence numbers from 2 to `seq`, so it needs no variable; its
`processed` is never assigned, so `Processed` is FALSE. A packet is its sequence
number and whether its bytes are still those that were hashed. `IsDone` is what
`done` returns, `NoteDone` what it writes; `Transmit` and `Receive` are the other
two methods; `Checked` is the loop of `receive`, a function from the number of
iterations done to the `PortState`; `Passed` says that `finalize` returns.
`receive` takes the number from the frame's first 8 bytes and looks it up; a
packet without a hash there is counted and compared with nothing.

`TrafficTest` has the nine steps of `do_worker`'s loop for both threads. A use of
the test object is one step, because it happens under the mutex; the time is read
(`ReadTime`) before it, and is old when it is used. A call of the crate is one
step on rings that are queues, justified by `XskRing`; buffers are only counted,
justified by `Ownership` of `Datapath`; the driver is awake, because sleeping and
waking are the subject of `Worker`. A thread that ends closes its socket.
`Carry` is the veth: it takes a frame of one TX ring, completes it, and hands it
to the other end if that has a buffer and room. `Misbehave` loses, repeats, swaps
or damages a frame; damage leaves the sequence number or makes it one of
`DamagedSeqs` (`Damaged`). `got` and `unchecked` are history: what each port was
handed, and which of these packets had no hash.

### Lifetime

`refs` is the strong count of each Arc, `arcs` the Arcs the program itself holds,
`handles` the queues and socket halves it holds. An object is `live`, then `dying`
when the count reached 0, `deleted` when its `drop` ran (`munmap`,
`xsk_umem__delete`, `xsk_socket__delete`), and `gone` when its fields, among them
the Arc of what it was made from, are dropped, too; other threads act in between.
`boxes` are the ring structs that are still allocated, `given` those whose address
the C library has. A creation fails when a ring size is no power of two or the C
function fails; both drop the Arc that was passed in. The sizes are numbers, and
`IsPowOfTwo` tests their bits as `v & (v - 1)` does; `sizes` keeps those a ring was
made with.

### Buffers

`buf[c]` is the address, length and slice length of the buffer of chunk `c`, `at[c]`
where it is: in the program's hands or in a ring of `Lifetime`. `MapBufs` is
`MmapArea::new`; `FillOne`, `RecvOne`, `SendOne` and `ServiceOne` are the body of one
iteration of `fill`, `try_recv`, `try_send` and `service` (how many there are, and
in which order, is the subject of `XskRing` and `Datapath`): what is put into the
ring, and what `BufMmap` is built from what comes out. The kernel writes a packet
behind the reserved bytes of the chunk its address lies in, and completes a frame
with the address it was sent with. A ring goes, with what is in it, when its
object is deleted (`EndRings`). Buffers of one area may be received through one
umem and sent through another, as in the forwarders. The two modules are checked
together: buffers in flight, and any order of drops.

## 3. What is checked

| run | instance | shows |
|---|---|---|
| `ring` | 4 entries, index range of 2 laps, batches to 5, both kinds of build | the ring implements `BoundedFifo` (`IsFifo`), the inductive invariant `RingInv`, no overwrite, no early read, nothing submitted that was not written (`EntriesWritten`), also when a call dies between reserve and submit; entries and room come through (`EntriesAreRead`, `RoomReturns`: also past an old cached index) |
| `datapath` | 3 buffers, 2 links, rings and deques of 2, batches to 3, every outcome of sendto | `Ownership`, capacities, that only sendto can panic, and that no frame on its way is an empty buffer (`FramesFull`); `TxKicked`: frames are left to a sleeping driver only when their sendto was refused or the driver stopped for want of completion entries, in spite of the race between its going to sleep and the flag test |
| `worker` | all five programs, 4 buffers (`l2fwd-1link.rs`: 3), 2 packets, one direction, initial fill 2, every outcome of sendto | `DeficitExact`; `ForwardsInOrder`: each direction implements `BoundedFifo` |
| `worker_live` | all five programs, 2 buffers, both directions, sendto works | `FillsComplete`: no initial fill is cut short, as `bufnum / 2` is enough for both links; `FramesLeave`, `ReceiveGoesOn`, `FillTaken`, and `DeficitExact` with traffic both ways |
| `worker_busy` | 3 buffers, one direction, sendto may be refused | violated: finding 1 |
| `echo_swap` | `l2fwd-1link.rs`, 3 buffers, rings and batches of 1 | violated: finding 5 |
| `control` | 2 workers, on their own cores or on one, queues of 2, a clock that may be set back | `PanicsExplained`: the controller panics only after the clock was set back, or over a core that two workers report for; `StatsKeepComing`, `ExitCompletes` |
| `control_exit` | 1 worker | violated: finding 2 |
| `traffic` | 2 packets each way in bursts of 1, 4 buffers, rings and thresholds of 2, one fault of any kind on top of drops for want of buffers | `DeficitsTrue`, `CanGoOn` (buffers waiting for a threshold never starve the next burst), `Accounts` (only damaged packets escape the counters), `NoFalseAlarm`, `VerdictSound` (what the test's approval is worth) |
| `traffic_dup` | 1 packet each way, from a burst of 2 cut short, one repeated | violated: finding 3 |
| `lifetime` | 2 umems, 1 socket of any kind, ring sizes 0, 3 and 4; 2 buffers in chunks of 3 bytes, 1 of them reserved | `CountsHolders`, `ParentsOutlive`, `HandlesUsable`, `AllReleased`; `MasksFit`; `MemoryNotShared`, `DescriptorsValid`, `KernelMemoryMapped` |
| `lifetime_rings` | 1 umem, 1 socket | violated: finding 4 |

Each property also has a mutant in `PROJECT.json`: a definition changed the way a
plausible bug would change it (operators named `X_Something` beside `X`), with
which the run finds the property violated.

### Bounds

* `XskRing`: two laps are the smallest range in which an index wraps at a
  position where slot and lap differ; `MaxBatch` is one more than the ring holds,
  so refused reserves and partial peeks happen; the proofs cover other sizes.
* `Datapath`: three buffers against rings and deques of two make full rings, full
  deques, refused reserves and partial batches happen on both links. Buffers are
  symmetric.
* `Worker`: `worker` has two buffers for each link, so that a deque may hold two
  packets; `worker_live` one for each. In `worker` the one-link `l2fwd-1link.rs` has
  three, two in the initial fill and one to refill with; the same number lets
  frames pile up in `echo_swap`. Threshold and initial fill are equal, the
  tightest case `WorkerAssumption` allows. In `worker_live` a ring holds all
  buffers, because a driver that stops for want of completion entries is another
  hazard (see `PROJECT.json`). In `datapath` it does stop so, and sendto is refused:
  without either of its two exceptions `TxKicked` is violated there.
* `Control`: queues have their real size of two. `MaxCount` bounds the counters:
  the first worker counts one packet, enough for a counter to differ from an
  older one. Two workers are the fewest that can share a core.
* `TrafficTest`: two bursts of one packet, so that buffers of the first one wait in
  the completion ring, below the threshold, when the second is to be sent. Four
  buffers are the least `TrafficAssumption` allows (two in the ring, one below the
  threshold, one for a burst); with three `CanGoOn` is violated. One fault on top of
  drops for want of buffers is enough for a lost and a repeated packet, which keep
  the counts equal. A damaged packet shows its own number, 1 (never given out), 3
  (given out, or only later) or 4 (never). The last, partial burst of a test is in
  `traffic_dup`. The clock runs one tick beyond `EndTime`: what `done` compares it
  with lies before.
* `Lifetime`: siblings outlive each other in either order (two umems of one area,
  one of them with a socket); `MaxArcs` of 2, for the area and one umem, makes
  clones differ from moves. Ring sizes have `Width` bits, 8 in the runs.
* `Buffers`: two chunks are neighbours, and one of them is the last of the area; one
  reserved byte and two of payload stand for 256 and 1792. A packet may fill its
  slice, and `set_len` is asked for a length that fits and one that does not.

Deadlock checking is off where the system may stop: both sides of a ring panicked
on overflow (`XskRing`), a worker that exited or panicked (`Worker`), a thread
ended by a fatal sendto (`datapath`), main having returned (`Control`,
`TrafficTest`), everything dropped (`Lifetime`).

### Fairness

* `XskRing`: weak fairness of the consumer's three steps. A loop iteration is
  finished, and every program calls `service` or `try_recv` in an endless loop.
  Nothing is asked of the producer. The overflow panic may end the loop.
* `Worker`: weak fairness of the thread and of a driver that is awake. Strong
  fairness of a poll and a kick that succeed: they may fail any number of times
  but not for ever. In `worker_live` sendto always succeeds; without that the
  property fails (finding 1). Packets need not arrive; Exit need not come.
* `Control`: weak fairness of each thread. Nothing says *when* a thread runs: the
  controller's second may pass many times before a worker is scheduled.
  CTRL-C and panics need not happen.
* `Lifetime`: a thread that began to drop an object finishes.

## 4. What is proved

Each theorem holds for every value of the constants that the named assumption of
its module allows. The invariants that the inductive ones consist of are checked
by a run first.

**The ring.** `XskRingProofs`, assumption `RingAssumption` (any ring size, any number
of laps of at least two, any batch bound, with or without overflow checks):

* `TypeCorrect`, `RingInvariant`: `RingInv` is inductive. `TypeOK` alone is not,
  nor are the two properties: that a write goes to a free entry depends on how
  far the private copies may be from the shared indexes. `ProducerInv` and
  `ConsumerInv` say so: within a call the private index is ahead by `ready`, the
  loop's `idx` is in between, and an old copy promises less than there is.
* `NeverOverwrites`, `OnlyReadsPublished` follow from it. The proofs work with
  `Plus` and `Minus` as case distinctions on the wrap, and a lemma that distinct
  indexes less than `Size` apart fall into distinct slots.
* `OnlyWrittenSubmitted`: `EntriesWritten` is inductive next to `RingInv`. It covers the
  batch in progress, too, because submit publishes what the loop has written and
  nothing else.
* `RingImplementsFifo`: every step of the two loops is a step of `BoundedFifo` or a
  stutter: `ProducerSubmit` is its `Put` of the whole batch, `ConsumerRead` its `Take`,
  all others change nothing that is not yet taken. The values it puts are entries
  only because of `EntriesWritten`; a read is of the oldest one because `Cursor`, not
  the shared consumer index, is where the queue begins.

**Calls and buffers.** `DatapathProofs`, assumption `DatapathAssumption` (any finite set
of buffers, any links, Vecs and deques, any capacities and batch bound):

* `DatapathInvariant`: `DpInv`, which is `DpTypeOK /\ Ownership /\ NoLibraryPanic`,
  is inductive; `DatapathTypeCorrect`, `BuffersOwned` and `PanicsUnreachable` are
  its parts. The three need each other: that a move neither copies nor loses
  buffers needs its count to be within the sequence, which comes from the
  capacities, and the panics are out of reach for the same reason.
* The argument is one lemma, `SplitKeeps`: when the elements of a sequence are
  distributed over what stays and what is appended elsewhere, by index maps that
  together are a bijection, exclusiveness and completeness are kept.
  `FrontMoves`, `BackMoves` and `PoppedMoves` give the maps for the three ways
  the code moves buffers (pop_front or peek and release; `drain(start..)`; pop in
  a loop), and each call is an instance of one of them.
* `FramesHavePackets`: `FramesFull` is inductive next to `DpInv`. It needs `Ownership`: the
  NIC writes, and service forgets, the contents of buffers in other places, which are
  therefore other buffers.
* `FramesKicked` (`TxKicked`): of all steps of calls and kernel only a refused sendto
  and a stop for want of completion entries leave frames to a sleeping driver. It
  asks nothing of the number of buffers or the outcomes of sendto. The first way is
  finding 1, the second the hazard at `socket.rs:439`; where neither can happen, no
  frame stays behind (`FramesLeave`, checked).

**The packet loops.** `WorkerProofs`, assumptions `DatapathAssumption` and
`WorkerAssumption` (any number of buffers, ring size, fill, threshold and batch; the
two links are the programs'):

* `WorkerInvariant`: `WorkerInv`, which is `DpInv`, `FramesFull`, `WorkerTypeOK`,
  `DeficitExact` and `LinksFilled`, is inductive. `DeficitExact` says nothing of the
  initial fill, during which the links are not yet equal; `LinksFilled` does. The
  steps of the loops are calls of `Datapath` with particular arguments, so `DpInv` is
  kept by the lemmas of `DatapathProofs`.
* `WorkerTypeCorrect`, `DeficitsExact`, `LoopsOwnBuffers`, `LoopsSendFrames` follow.
* `InitialFillsComplete` (`FillsComplete`): the second link is filled from what the first
  one left, so `StartupInv` adds to `WorkerInv` what the Vec still has at each link
  (`BufsLeft`), and that a panic ends the thread (`PanicsEnd`). With `LinksFilled`, which
  says that the link to be filled has no buffer yet, whatever the kernel does with the
  other one's, `fill` has both buffers and room (`FillGives`). For `main` that is so with
  any `--bufnum` (`EnoughGiven`); for a worker it is unless the pool gave it too little,
  the one case in which `do_worker` panics here.
* `ProgramsAreClients`: the packet loops refine `Datapath`. Every step of a loop is a call
  that `Client` may make, or changes nothing there; the arguments are calls' arguments
  because of the ledger (`Batches`: a deficit is at most the initial fill, which is at
  most a batch). `SwapMacs` is the `Rewrite` it should be because every frame of a deque
  has a packet (`SwapIsRewrite`). So `FramesKicked` holds of the programs, too.

**Forwarding.** `ForwardProofs`, the same assumptions:

* `ForwardersImplementFifo`: with the frames of NIC, TX ring, deque and RX ring, in
  this order, as the queue, every step of each forwarder and of the kernel is a
  step of `BoundedFifo` on each of the two directions, or a stutter. `KernelReceive` is
  `Put`, `KernelSend` is `Take`, and every call between the two regroups the four parts
  without changing their concatenation (`MovedAlong`). The two directions do not
  touch each other (`StopsApart`).
* It rests on `WorkerInv` (a buffer not on the way is not one on it, and those on it
  have packets), and on a second inductive invariant, `NothingSent`: the programs
  that hand frames back have nothing in a TX ring.

**Controller and workers.** `ControlProofs`, assumption `ControlAssumption` (any number of
workers, any queue size, any counters, any assignment of cores):

* `ControlInvariant`: `ControlInv` is inductive. That the subtraction in `diff` cannot
  fail is a claim about a worker, its response queue, the pending list and the map
  at once: `CountsGoUp` says that a counter does not go down on this way, for
  workers that are `Alone` on their core. That the division cannot is `OncePerRound`: at
  most one response of a worker is pending, and between two of them is a sleep.
* `QueuesBounded` (`ControlTypeOK`) and `DiffPanicsExplained` (`PanicsExplained`) are parts of it.

**Handles and ring sizes.** `LifetimeProofs`, assumption `LifetimeAssumption` (any finite
sets of umems and sockets, any ring sizes of any width):

* `LifetimeInvariant`: `LifetimeInv`, which is `TypeOK`, `ParentKinds` and `CountsHolders`, is
  inductive. A count is a cardinality, so each step says which sets of holders gain
  or lose one member; `ParentKinds` says that an object dropped is a child of no other.
* `CountsAreHolders`; from it `ParentsEndLast` and `HandlesStayUsable`: who still has an
  Arc is counted, so the count is not 0, so its object is alive.
* `PowersRecognized`: `v & (v - 1)` is 0 exactly when `v` is 0 or a power of two, and
  `is_pow_of_two` excludes 0. The highest bit of `v` is one of `v - 1`, too, unless `v` is a
  power of two (`BitAt`); then it is the only one of `v` (`PowerBits`). The provers know
  nothing of exponentiation: that `2^(n+1)` is twice `2^n` is derived from the library's
  theorem that `2^n` is the number of subsets of n things (`PowersDouble`), and the rest
  by the least number for which it fails, as the induction theorems take an operator.
* `RingSizesFit` (`MasksFit`): whatever sizes are asked for and whichever creations fail,
  each ring there is has a power of two.

**Memory.** `BuffersProofs`, assumptions `LifetimeAssumption` and `BuffersAssumption` (any
number of buffers, any chunk longer than what is reserved of it):

* `BuffersInvariant`: `BufInv` is inductive. `Placed` says that each buffer has the address
  its chunk got first plus the reserved bytes and the rest of the chunk as its slice;
  `RingsThere` that a buffer in a ring has an object whose drop has not run.
* `BuffersDisjoint`, `SentDescriptorsValid`, `MappedWhileInRings` follow, the last with
  `LifetimeInv`. `BuffersTypeCorrect` needs `RingsThere`: a buffer in a ring has an object
  that is not gone. `Buffers` adds its steps to those of `Lifetime` and changes none of
  its variables in any other way, so what is proved of handles holds here.

**The traffic test.** `TrafficTestProofs`, assumptions `BiDirHashAssumption` and
`TrafficAssumption` (any number of packets, any bursts, sizes, thresholds and batches
that leave a thread the buffers of one burst, any kinds and number of faults):

* `TestBuffersInvariant`: `BufferInv`, which is `TrafficTypeOK`, `DeficitsTrue` and `Ledger`, is
  inductive. `DeficitsTrue` alone is not: of a thread before its initial fill it says
  nothing, and that `pending_receive` is empty when the next packets are received is
  what keeps it within its length. `Ledger` says both, and that no more than `Total`
  packets are sent.
* `TrafficTypeCorrect` and `DeficitsAreTrue` are its parts; `NeverStarved` (`CanGoOn`) follows
  by adding up what a thread cannot have: the receive side has `RingSize` buffers,
  the completion ring fewer than `ServiceThreshold`.
* `TestInvariant`: `TestInv`, which is `BufferInv`, `Accounts`, `NoFalseAlarm` and `InOrder`, is
  inductive. `Accounts` relates each counter to the packets handed over: while
  `out_of_order` is 0 they are rising, while `bad_hash` is 0 those with a hash are intact;
  the others are damaged, because every undamaged packet is in the map `hashes` before
  it can arrive. `InOrder` joins the four queues on the way to a port
  (`WayTo`): as long as there was no fault they are rising together, undamaged, and
  ahead of `last_received_seq`. `NoFalseAlarm` needs all of it: a packet
  out of order in the sender's deque is found only when it is received.
* One `TestReceive` checks any number of packets. What the loop keeps (`Counting`,
  `LoopOrder`, `LoopHashes`, `LoopClean`) is proved by the least number of iterations after
  which it fails (`Least`, from the library's theorem on well-founded relations), as
  the induction theorems take an operator.
* `CountersAccount` and `NoFalseAlarms` are parts of `TestInv`; `VerdictIsSound` follows: when
  `finalize` returns, `Total` rising numbers were received; if each had a hash they are
  all of 2 .. `Total` + 1 (`AllNumbers`).

`VerdictIsSound` says what approval is worth, and where it ends: a packet damaged in its
first 8 bytes into a number that was not given out by then is compared with nothing
(`bidir_hash.rs:312`). It is late unless that number is above all before it, and those
after it are late unless theirs are above it, so it escapes as the first packet, showing
1, or among the last ones. Both happen in the run. Frames the test did not send are left
out (the hazard at the same line).

**Only model-checked.** Liveness under fairness is out of the prover's reach:
`EntriesAreRead`, `RoomReturns`, `FramesLeave`, `ReceiveGoesOn`, `FillTaken`, `StatsKeepComing`,
`ExitCompletes`, `AllReleased`. Everything else a passing run checks is proved: all
invariants, `TxKicked`, and the refinements of `BoundedFifo` and `Datapath`.

## 5. Findings

1. **A refused kick is not repeated** (`worker_busy`, `FramesLeave`).
   `wakeup_if_required` takes ENOBUFS, EAGAIN, EBUSY and ENETDOWN for success
   (`socket.rs:504`: "These error codes are OK according to the kernel xdpsock_user
   example"), and `try_send` reaches it only with a frame to send. When the last
   kick of a burst is refused, the burst stays in the TX ring until some later
   frame is sent. `bidir_hash.rs:344` compares the frames transmitted with those
   received.
2. **CTRL-C can be lost** (`control_exit`, `CtrlCExits`). Exit is pushed once
   into a queue of two; when two GetStats are still in it the push fails, the
   error is printed, the controller ends and main waits for the worker for ever
   (`l2fwd-2link-multicore.rs:446-457`, the same in `rxdrop.rs`). It takes a
   worker that does not come to its queue for two seconds.
3. **Duplicates are never counted** (`traffic_dup`, `DuplicatesCounted`).
   `receive` asks for `processed` (`bidir_hash.rs:308`), which is written once, as
   false (`:241`). The checks of `duplicated` at the end always hold. A
   repeated packet fails the test all the same: it is out of order (`VerdictSound`,
   `Rising`).
   (`Display`, which nothing prints, also shows port 0's counter for port 1,
   `:141`.)
4. **Ring structs are freed before the socket that uses them** (`lifetime_rings`,
   `RingsUntilDeleted`). `SocketRx` and `SocketTx` own the Box whose address
   `xsk_socket__create` was given; `socket.rs:422` says "Cleanup is in the parent
   Socket", and that cleanup, `xsk_socket__delete` of libbpf, unmaps both rings
   through these structs. Whichever handle goes first takes its struct along. The
   Boxes would have to be fields of `Socket` (those of the fill and completion
   ring, of `Umem`).

5. **Frames are swapped twice** (`echo_swap`, `SentSwapped`). After each receive
   `l2fwd-1link.rs:247` calls `swap_macs` on the whole deque. Frames an earlier round
   could not send, because the TX ring was full, are still in it and get their old
   addresses back; `l2fwd-1link.rs:2` says the program "swaps the MAC addresses and
   sends the packets back out the same link". In the run the TX ring has room for
   one frame and three arrive.

## 6. Not modelled, and the plan

Out of scope: parsing and printing (YAML, tables, packets), core affinity,
rlimits, removing the XDP program, the benchmark, the hash and the random bytes
of the traffic test, the statistics thread of `l2fwd-1link.rs` (it prints what it
receives), and `BufVec` (a stand-in that never meets a ring; its `set_len`, unlike that
of `BufMmap`, accepts any length).

Outside the instances, for the reasons the hazards give: a link whose initial
fill, for a small `--bufnum`, is below FILL_THRESHOLD and so never repeated, a
`--batch-size` larger than a ring, a `--bufsize` below AF_XDP_RESERVED, a driver
that runs out of completion entries while nobody calls `service`, buffers the
program keeps after the area is gone, and frames on the veth that are not the
test's.

The plan of modules, runs and proofs is complete: what a run checks and no theorem
states is listed under "Only model-checked" in section 4.
