------------------------------ MODULE XskRing ------------------------------
(***************************************************************************)
(* One AF_XDP ring at the granularity of its shared-memory accesses.       *)
(*                                                                         *)
(* A ring is an array of Size entries with two free-running u32 indexes in *)
(* shared memory: the producer index and the consumer index.  Each side    *)
(* keeps a private copy of both (cached_prod, cached_cons), as the structs *)
(* xsk_ring_prod and xsk_ring_cons do.  The producer runs the body of      *)
(* UmemFillQueue::fill: reserve, write one entry per loop iteration,       *)
(* submit.  The consumer runs the body of UmemCompletionQueue::service:    *)
(* peek, read one entry per iteration, release.  try_send and try_recv     *)
(* have the same shape over the TX and RX rings.                           *)
(*                                                                         *)
(* Of a real ring one end is the crate and the other the kernel; the       *)
(* kernel's end follows the same protocol, so the module takes the crate's *)
(* code at both ends.  The four libbpf inline functions are modelled from  *)
(* their contract (external).                                              *)
(***************************************************************************)
EXTENDS Integers, Sequences

CONSTANTS
  Size,            \* ring size, a power of two
  Laps,            \* 2^32 / Size: how often the array fits in the index range
  MaxBatch,        \* largest batch_size a caller passes
  Value, NoValue   \* entries, and the content of an entry never written

ASSUME RingAssumption ==
  /\ Size \in Nat \ {0}
  /\ Laps \in Nat \ {0, 1}
  /\ MaxBatch \in Nat \ {0}
  /\ NoValue \notin Value

VARIABLES
  overflowChecks,            \* does this build panic on integer overflow?
  slots,                     \* the entries, in shared memory
  prod, cons,                \* the shared producer and consumer index
  pCachedProd, pCachedCons,  \* the producer's struct; pCachedCons is Size ahead
  pPc, pIdx, pLeft, pReady,  \* where fill() is: local idx, iterations left, ready
  cCachedProd, cCachedCons,  \* the consumer's struct
  cPc, cIdx, cLeft, cReady,  \* where service() is
  out                        \* the addr of the BufMmap built last

producerVars == <<pCachedProd, pCachedCons, pPc, pIdx, pLeft, pReady>>
consumerVars == <<cCachedProd, cCachedCons, cPc, cIdx, cLeft, cReady, out>>
vars == <<overflowChecks, slots, prod, cons, producerVars, consumerVars>>

-----------------------------------------------------------------------------
(* u32 arithmetic, with IdxMod for 2^32.  n is at most IdxMod.             *)

IdxMod   == Size * Laps
Index    == 0 .. IdxMod - 1

\* Mutated: the index grows without a width.
Plus_NoWrap(i, n) == i + n

\* i + n and i - j, wrapped.
Plus(i, n)  == IF i + n >= IdxMod THEN i + n - IdxMod ELSE i + n
Minus(i, j) == IF i >= j THEN i - j ELSE i - j + IdxMod

\* ring->descs[idx & ring->mask]; for a power of two the mask is a remainder.
Slot(i) == i % Size

\* `idx += 1' after an entry: a build with overflow checks panics at u32::MAX.
IdxOverflows(i) == overflowChecks /\ i = IdxMod - 1

\* Mutated: the entry is read or written, and idx forgotten.
NextIdx_Stuck(i) == i

\* idx after an entry.
NextIdx(i) == Plus(i, 1)

-----------------------------------------------------------------------------
(* The producer: UmemFillQueue::fill.                                      *)

\* Mutated: the cached consumer index is never refreshed.
RefreshedCons_Stale(b) == pCachedCons

\* xsk_prod_nb_free: the free entries known, refreshed from the shared
\* consumer index only when they do not suffice.
RefreshedCons(b) ==
  IF Minus(pCachedCons, pCachedProd) >= b THEN pCachedCons ELSE Plus(cons, Size)

\* The entries _xsk_ring_prod__reserve grants: all of them or none.
Reserved(b) == IF Minus(RefreshedCons(b), pCachedProd) >= b THEN b ELSE 0

\* Mutated: one entry more than was written.
SubmitCount_OneMore(ready) == ready + 1

\* What is published when `ready' entries were reserved.
SubmitCount(ready) == ready

ProducerReserve(b) ==
  /\ pPc = "idle"
  /\ pCachedCons' = RefreshedCons(b)
  /\ IF Reserved(b) = 0
     THEN UNCHANGED <<pCachedProd, pPc, pIdx, pLeft, pReady>>
     ELSE /\ pIdx' = pCachedProd
          /\ pReady' = Reserved(b)
          /\ pLeft' = Reserved(b)
          /\ pCachedProd' = Plus(pCachedProd, Reserved(b))
          /\ pPc' = "copy"
  /\ UNCHANGED <<overflowChecks, slots, prod, cons, consumerVars>>

\* One iteration: idx is advanced before the entry's word is written, so an
\* overflow panic leaves the reserved entry unwritten.
ProducerWrite(v) ==
  /\ pPc = "copy" /\ pLeft > 0
  /\ IF IdxOverflows(pIdx)
     THEN /\ pPc' = "panicked"
          /\ UNCHANGED <<slots, pIdx, pLeft>>
     ELSE /\ slots' = [slots EXCEPT ![Slot(pIdx)] = v]
          /\ pIdx' = NextIdx(pIdx)
          /\ pLeft' = pLeft - 1
          /\ UNCHANGED pPc
  /\ UNCHANGED <<overflowChecks, prod, cons, pCachedProd, pCachedCons, pReady,
                 consumerVars>>

ProducerSubmit ==
  /\ pPc = "copy" /\ pLeft = 0
  /\ prod' = Plus(prod, SubmitCount(pReady))
  /\ pPc' = "idle"
  /\ UNCHANGED <<overflowChecks, slots, cons, pCachedProd, pCachedCons, pIdx,
                 pLeft, pReady, consumerVars>>

-----------------------------------------------------------------------------
(* The consumer: UmemCompletionQueue::service.                             *)

\* Mutated: the cached producer index is never refreshed.
RefreshedProd_Stale == cCachedProd

\* xsk_cons_nb_avail: the entries known, refreshed only when there are none.
RefreshedProd == IF cCachedProd = cCachedCons THEN prod ELSE cCachedProd

\* The entries _xsk_ring_cons__peek grants: as many as are known, up to b.
Peeked(b) ==
  LET known == Minus(RefreshedProd, cCachedCons)
  IN  IF known < b THEN known ELSE b

\* Mutated: the loop runs batch_size times, whatever peek returned.
Iterations_Batch(ready, b) == b

\* How often service's loop runs.
Iterations(ready, b) == ready

\* What is handed back after `ready' entries were read.
ReleaseCount(ready) == ready

ConsumerPeek(b) ==
  /\ cPc = "idle"
  /\ cCachedProd' = RefreshedProd
  /\ IF Peeked(b) = 0
     THEN UNCHANGED <<cCachedCons, cPc, cIdx, cLeft, cReady>>
     ELSE /\ cIdx' = cCachedCons
          /\ cReady' = Peeked(b)
          /\ cLeft' = Iterations(Peeked(b), b)
          /\ cCachedCons' = Plus(cCachedCons, Peeked(b))
          /\ cPc' = "copy"
  /\ UNCHANGED <<overflowChecks, slots, prod, cons, producerVars, out>>

\* One iteration: the address is read, idx advanced, the BufMmap pushed.
ConsumerRead ==
  /\ cPc = "copy" /\ cLeft > 0
  /\ IF IdxOverflows(cIdx)
     THEN /\ cPc' = "panicked"
          /\ UNCHANGED <<cIdx, cLeft, out>>
     ELSE /\ out' = slots[Slot(cIdx)]
          /\ cIdx' = NextIdx(cIdx)
          /\ cLeft' = cLeft - 1
          /\ UNCHANGED cPc
  /\ UNCHANGED <<overflowChecks, slots, prod, cons, producerVars, cCachedProd,
                 cCachedCons, cReady>>

ConsumerRelease ==
  /\ cPc = "copy" /\ cLeft = 0
  /\ cons' = Plus(cons, ReleaseCount(cReady))
  /\ cPc' = "idle"
  /\ UNCHANGED <<overflowChecks, slots, prod, producerVars, cCachedProd,
                 cCachedCons, cIdx, cLeft, cReady, out>>

-----------------------------------------------------------------------------
Init ==
  /\ overflowChecks \in BOOLEAN
  /\ slots = [s \in 0 .. Size - 1 |-> NoValue]
  /\ prod = 0 /\ cons = 0
  /\ pCachedProd = 0 /\ pCachedCons = Size
  /\ pPc = "idle" /\ pIdx = 0 /\ pLeft = 0 /\ pReady = 0
  /\ cCachedProd = 0 /\ cCachedCons = 0
  /\ cPc = "idle" /\ cIdx = 0 /\ cLeft = 0 /\ cReady = 0
  /\ out = NoValue

\* fill returns before reserving when batch_size is 0; service peeks with 0
\* when the caller's Vec is full.
Producer ==
  \/ \E b \in 1 .. MaxBatch : ProducerReserve(b)
  \/ \E v \in Value : ProducerWrite(v)
  \/ ProducerSubmit

Consumer ==
  \/ \E b \in 0 .. MaxBatch : ConsumerPeek(b)
  \/ ConsumerRead
  \/ ConsumerRelease

Next == Producer \/ Consumer

Spec == Init /\ [][Next]_vars

\* A call that was begun runs to its end, and the consumer's loop keeps
\* calling with room in its Vec.
Fairness ==
  /\ WF_vars(\E b \in 1 .. MaxBatch : ConsumerPeek(b))
  /\ WF_vars(ConsumerRead)
  /\ WF_vars(ConsumerRelease)

FairSpec == Spec /\ Fairness

-----------------------------------------------------------------------------
(* Properties.                                                             *)

Pc == {"idle", "copy", "panicked"}

\* A count of reserved or peeked entries: a u32, at most the batch asked for.
Counts == Index \cap 0 .. MaxBatch

\* Every index and count is a u32, every count at most a batch, every entry an
\* address or still unwritten.
TypeOK ==
  /\ overflowChecks \in BOOLEAN
  /\ slots \in [0 .. Size - 1 -> Value \cup {NoValue}]
  /\ prod \in Index /\ pCachedProd \in Index /\ pIdx \in Index
  /\ cons \in Index /\ cCachedCons \in Index /\ cIdx \in Index
  /\ pCachedCons \in Index /\ cCachedProd \in Index
  /\ pLeft \in Counts /\ pReady \in Counts
  /\ cLeft \in Counts /\ cReady \in Counts
  /\ pPc \in Pc /\ cPc \in Pc
  /\ out \in Value \cup {NoValue}

\* How many entries are published and not yet released, and which they are.
Used      == Minus(prod, cons)
Published == {Plus(cons, k) : k \in 0 .. Used - 1}

\* fill's loop never writes an entry the other side may still read, although
\* it decided on the room with a copy of the consumer index that may be old.
NoOverwrite ==
  pPc = "copy" /\ pLeft > 0 => \A i \in Published : Slot(pIdx) # Slot(i)

\* service's loop reads only entries that were submitted, although it decided
\* on their number with a copy of the producer index that may be old.
ReadsPublished ==
  cPc = "copy" /\ cLeft > 0 => cIdx \in Published

\* The invariant of the two protocols.  Within a call the private copy is
\* ahead of the shared index by the batch, the loop's idx is in between, and
\* neither old copy ever promises more than the shared indexes hold.
ProducerInv ==
  /\ pPc = "idle" => pCachedProd = prod
  /\ pPc # "idle" => /\ pLeft <= pReady /\ pReady <= Size
                     /\ pCachedProd = Plus(prod, pReady)
                     /\ pIdx = Plus(prod, pReady - pLeft)
  /\ Minus(pCachedProd, cons) <= Size
  /\ Used <= Minus(pCachedProd, cons)
  /\ Minus(pCachedCons, pCachedProd) + Minus(pCachedProd, cons) <= Size

ConsumerInv ==
  /\ cPc = "idle" => cCachedCons = cons
  /\ cPc # "idle" => /\ cLeft <= cReady /\ cReady <= Size
                     /\ cCachedCons = Plus(cons, cReady)
                     /\ cIdx = Plus(cons, cReady - cLeft)
  /\ Minus(cCachedProd, cons) <= Used
  /\ Minus(cCachedCons, cons) <= Minus(cCachedProd, cons)

RingInv == TypeOK /\ ProducerInv /\ ConsumerInv

\* How many entries of its batch fill has written.
Written == IF pPc = "idle" THEN 0 ELSE pReady - pLeft

\* Every entry the other side may read, and every one fill's loop is done with,
\* has an address in it: neither a slot that was never written nor the end of a
\* batch an overflow panic cut short is ever shown.
EntriesWritten ==
  \A k \in 0 .. Used + Written - 1 : slots[Slot(Plus(cons, k))] \in Value

\* The entries not yet taken, as a sequence: what the refinement maps to.
Cursor == IF cPc = "idle" THEN cons ELSE cIdx
Unread == [k \in 1 .. Minus(prod, Cursor) |-> slots[Slot(Plus(Cursor, k - 1))]]

Fifo == INSTANCE BoundedFifo WITH q <- Unread, out <- out, Capacity <- Size

\* Through every interleaving of the two loops the ring is a bounded FIFO
\* queue: nothing lost, duplicated, reordered or seen before submit.
IsFifo == Fifo!Spec

\* What was submitted is read, as long as the consumer's loop keeps calling
\* service: the cached producer index cannot hide an entry for ever.  Only the
\* overflow panic ends that loop.
EntriesAreRead == <>(cPc = "panicked") \/ Fifo!Drained

\* A full ring gets room again, and the next fill finds it: release hands back
\* what peek took, and reserve does not go on with an old consumer index.
RoomReturns ==
  Used = Size ~> (pPc = "idle" /\ Reserved(1) = 1) \/ cPc = "panicked"
=============================================================================
