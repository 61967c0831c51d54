--------------------------- MODULE XskRingProofs ---------------------------
(***************************************************************************)
(* XskRing, proved for every ring size, every index width that is a        *)
(* multiple of it, every batch size and both kinds of build.               *)
(***************************************************************************)
EXTENDS XskRing, SequenceTheorems, TLAPS

-----------------------------------------------------------------------------
(* The arithmetic of the u32 indexes.                                      *)

\* There are at least two laps in the index range: a full ring and an empty
\* one differ in the distance of their indexes.
LEMMA IdxModFacts == IdxMod \in Nat /\ IdxMod >= 2 * Size /\ Size \in Nat /\ Size > 0
BY RingAssumption DEF IdxMod

\* Plus and Minus stay within u32.
LEMMA PlusClosed ==
  ASSUME NEW i \in Index, NEW n \in 0 .. IdxMod PROVE Plus(i, n) \in Index
BY IdxModFacts DEF Index, Plus

LEMMA MinusClosed ==
  ASSUME NEW i \in Index, NEW j \in Index PROVE Minus(i, j) \in Index
BY IdxModFacts DEF Index, Minus

LEMMA SmallSteps == 1 \in 0 .. IdxMod /\ Size \in 0 .. IdxMod /\ Index \subseteq 0 .. IdxMod
BY IdxModFacts DEF Index

\* idx & mask is a place in the array.
LEMMA SlotType == ASSUME NEW i \in Index PROVE Slot(i) \in 0 .. Size - 1
BY IdxModFacts DEF Slot, Index

\* A positive multiple of the ring size is at least the ring size.
LEMMA MultipleAtLeast ==
  ASSUME NEW d \in Int, NEW c \in Int, d > 0, d = Size * c
  PROVE  d >= Size
BY RingAssumption

\* The lap an index is in, and its slot.
LEMMA LapAndSlot ==
  ASSUME NEW i \in Nat
  PROVE  /\ i \div Size \in Nat
         /\ i = Size * (i \div Size) + (i % Size)
<1>1. Size \in Nat /\ Size > 0
  BY RingAssumption
<1>2. i \div Size \in Nat
  BY <1>1
<1>3. i = Size * (i \div Size) + (i % Size)
  BY <1>1
<1> QED BY <1>2, <1>3

\* Two indexes less than Size apart are in different slots, also across the
\* wrap of the index: the index range is a whole number of laps.
LEMMA SlotsDiffer ==
  ASSUME NEW i \in Index, NEW k \in 1 .. Size - 1
  PROVE  Slot(Plus(i, k)) # Slot(i)
<1> DEFINE j == Plus(i, k)
<1>1. i \in Nat /\ j \in Nat /\ k \in Nat /\ k > 0 /\ k < Size
  BY IdxModFacts, PlusClosed, MinusClosed, SmallSteps DEF Index
<1>2. /\ i = Size * (i \div Size) + (i % Size) /\ i \div Size \in Nat
      /\ j = Size * (j \div Size) + (j % Size) /\ j \div Size \in Nat
  BY <1>1, LapAndSlot
<1>3. SUFFICES ASSUME j % Size = i % Size PROVE FALSE
  BY DEF Slot
<1> DEFINE a == i \div Size
           b == j \div Size
<1>4. a \in Nat /\ b \in Nat /\ Laps \in Nat /\ Size \in Nat
  BY <1>2, RingAssumption
<1>5. j - i = Size * b - Size * a /\ Size * b \in Int /\ Size * a \in Int
  <2>1. Size * b \in Int /\ Size * a \in Int /\ i % Size \in Int
    BY <1>4, <1>1, RingAssumption
  <2> QED BY <2>1, <1>2, <1>3, <1>1
<1>6. PICK c \in Int : k = Size * c
  <2>1. CASE i + k >= IdxMod
    <3>1. k = (j - i) + Size * Laps
      BY <2>1, <1>1, IdxModFacts DEF Plus, IdxMod
    <3>2. k = Size * b - Size * a + Size * Laps
      BY <3>1, <1>5
    <3>3. k = Size * (b - a + Laps)
      BY <3>2, <1>4
    <3> QED BY <3>3, <1>4
  <2>2. CASE ~ (i + k >= IdxMod)
    <3>1. k = j - i
      BY <2>2, <1>1, IdxModFacts DEF Plus
    <3>2. k = Size * (b - a)
      BY <3>1, <1>5, <1>4
    <3> QED BY <3>2, <1>4
  <2> QED BY <2>1, <2>2
<1>7. k >= Size
  BY <1>6, <1>1, MultipleAtLeast
<1> QED BY <1>7, <1>1, RingAssumption

-----------------------------------------------------------------------------
(* Type correctness.                                                       *)

LEMMA TypeInit == Init => TypeOK
BY RingAssumption, IdxModFacts DEF Init, TypeOK, Index, Counts, Pc

\* What reserve computes from a ring in a possible state.
LEMMA ReserveType ==
  ASSUME TypeOK, NEW n \in 1 .. MaxBatch
  PROVE  /\ RefreshedCons(n) \in Index
         /\ Reserved(n) \in {0, n} /\ Reserved(n) \in Counts
<1>1. RefreshedCons(n) \in Index
  BY IdxModFacts, PlusClosed, MinusClosed, SmallSteps DEF TypeOK, RefreshedCons
<1>2. Minus(RefreshedCons(n), pCachedProd) \in Index
  BY <1>1, IdxModFacts, PlusClosed, MinusClosed, SmallSteps DEF TypeOK
<1> QED BY <1>1, <1>2, IdxModFacts, RingAssumption DEF Reserved, Index, Counts

\* What peek computes.
LEMMA PeekType ==
  ASSUME TypeOK, NEW n \in 0 .. MaxBatch
  PROVE  /\ RefreshedProd \in Index
         /\ Peeked(n) \in 0 .. n /\ Peeked(n) \in Counts
<1>1. RefreshedProd \in Index
  BY DEF TypeOK, RefreshedProd
<1>2. Minus(RefreshedProd, cCachedCons) \in Index
  BY <1>1, IdxModFacts, PlusClosed, MinusClosed, SmallSteps DEF TypeOK
<1> QED BY <1>1, <1>2, IdxModFacts, RingAssumption DEF Peeked, Index, Counts

LEMMA TypeProducer ==
  ASSUME TypeOK, Producer PROVE TypeOK'
<1>1. ASSUME NEW n \in 1 .. MaxBatch, ProducerReserve(n) PROVE TypeOK'
  <2>1. Reserved(n) \in Counts
    BY <1>1, ReserveType
  <2>2. pCachedProd \in Index => Plus(pCachedProd, Reserved(n)) \in Index
    BY <2>1, PlusClosed, SmallSteps DEF Counts
  <2> QED BY <1>1, <2>1, <2>2, ReserveType
          DEF TypeOK, ProducerReserve, Pc, consumerVars
<1>2. ASSUME NEW v \in Value, ProducerWrite(v) PROVE TypeOK'
  <2>1. slots' \in [0 .. Size - 1 -> Value \cup {NoValue}]
    BY <1>2, SlotType DEF TypeOK, ProducerWrite
  <2>2. pIdx' \in Index
    BY <1>2, IdxModFacts, PlusClosed, MinusClosed, SmallSteps DEF TypeOK, ProducerWrite, NextIdx
  <2>3. pLeft' \in Counts
    BY <1>2, RingAssumption, IdxModFacts DEF TypeOK, ProducerWrite, Counts, Index
  <2> QED BY <1>2, <2>1, <2>2, <2>3 DEF TypeOK, ProducerWrite, Pc, consumerVars
<1>3. ASSUME ProducerSubmit PROVE TypeOK'
  <2>1. Plus(prod, pReady) \in Index
    BY PlusClosed, SmallSteps DEF TypeOK, Counts
  <2> QED BY <1>3, <2>1 DEF TypeOK, ProducerSubmit, SubmitCount, Pc, consumerVars
<1> QED BY <1>1, <1>2, <1>3 DEF Producer

LEMMA TypeConsumer ==
  ASSUME TypeOK, Consumer PROVE TypeOK'
<1>1. ASSUME NEW n \in 0 .. MaxBatch, ConsumerPeek(n) PROVE TypeOK'
  <2>1. Peeked(n) \in Counts
    BY <1>1, PeekType
  <2>2. cCachedCons \in Index => Plus(cCachedCons, Peeked(n)) \in Index
    BY <2>1, PlusClosed, SmallSteps DEF Counts
  <2> QED BY <1>1, <2>1, <2>2, PeekType
          DEF TypeOK, ConsumerPeek, Iterations, Pc, producerVars
<1>2. ASSUME ConsumerRead PROVE TypeOK'
  <2>1. cIdx' \in Index
    BY <1>2, IdxModFacts, PlusClosed, MinusClosed, SmallSteps DEF TypeOK, ConsumerRead, NextIdx
  <2>2. out' \in Value \cup {NoValue}
    BY <1>2, SlotType DEF TypeOK, ConsumerRead
  <2>3. cLeft' \in Counts
    BY <1>2, RingAssumption, IdxModFacts DEF TypeOK, ConsumerRead, Counts, Index
  <2> QED BY <1>2, <2>1, <2>2, <2>3 DEF TypeOK, ConsumerRead, Pc, producerVars
<1>3. ASSUME ConsumerRelease PROVE TypeOK'
  <2>1. Plus(cons, cReady) \in Index
    BY PlusClosed, SmallSteps DEF TypeOK, Counts
  <2> QED BY <1>3, <2>1 DEF TypeOK, ConsumerRelease, ReleaseCount, Pc, producerVars
<1> QED BY <1>1, <1>2, <1>3 DEF Consumer

LEMMA TypeStutter == ASSUME TypeOK, UNCHANGED vars PROVE TypeOK'
BY DEF TypeOK, vars, producerVars, consumerVars

\* fill and service keep every index in u32 and every count in a batch.
THEOREM TypeCorrect == Spec => []TypeOK
<1>1. TypeOK /\ [Next]_vars => TypeOK'
  BY TypeProducer, TypeConsumer, TypeStutter DEF Next
<1> QED BY <1>1, TypeInit, PTL DEF Spec

-----------------------------------------------------------------------------
(* The protocol invariant.                                                 *)

\* The values the shared and the cached indexes may have, for the steps that
\* are arithmetic only.
LEMMA RingType ==
  ASSUME TypeOK
  PROVE  /\ IdxMod \in Nat /\ IdxMod >= 2 * Size /\ Size \in Nat /\ Size > 0
         /\ prod \in 0 .. IdxMod - 1 /\ cons \in 0 .. IdxMod - 1
         /\ pCachedProd \in 0 .. IdxMod - 1 /\ pCachedCons \in 0 .. IdxMod - 1
         /\ cCachedProd \in 0 .. IdxMod - 1 /\ cCachedCons \in 0 .. IdxMod - 1
         /\ pIdx \in 0 .. IdxMod - 1 /\ cIdx \in 0 .. IdxMod - 1
         /\ pLeft \in 0 .. IdxMod - 1 /\ pReady \in 0 .. IdxMod - 1
         /\ cLeft \in 0 .. IdxMod - 1 /\ cReady \in 0 .. IdxMod - 1
BY IdxModFacts DEF TypeOK, Counts, Index

LEMMA InvInit == Init => ProducerInv /\ ConsumerInv
BY IdxModFacts DEF Init, ProducerInv, ConsumerInv, Used, Minus

LEMMA ReserveInv ==
  ASSUME RingInv, NEW n \in 1 .. MaxBatch, ProducerReserve(n)
  PROVE  ProducerInv' /\ ConsumerInv'
<1>1. ProducerInv'
  BY RingType, RingAssumption
     DEF RingInv, ProducerInv, ProducerReserve, RefreshedCons, Reserved, Used,
         Plus, Minus
<1>2. ConsumerInv'
  BY DEF RingInv, ConsumerInv, ProducerReserve, Used, Minus, consumerVars
<1> QED BY <1>1, <1>2

LEMMA WriteInv ==
  ASSUME RingInv, NEW v \in Value, ProducerWrite(v)
  PROVE  ProducerInv' /\ ConsumerInv'
<1>1. ProducerInv'
  BY RingType
     DEF RingInv, ProducerInv, ProducerWrite, NextIdx, Used, Plus, Minus
<1>2. ConsumerInv'
  BY DEF RingInv, ConsumerInv, ProducerWrite, Used, Minus, consumerVars
<1> QED BY <1>1, <1>2

LEMMA SubmitInv ==
  ASSUME RingInv, ProducerSubmit
  PROVE  ProducerInv' /\ ConsumerInv'
<1>1. ProducerInv'
  BY RingType
     DEF RingInv, ProducerInv, ProducerSubmit, SubmitCount, Used, Plus, Minus
<1>2. ConsumerInv'
  BY RingType
     DEF RingInv, ProducerInv, ConsumerInv, ProducerSubmit, SubmitCount, Used,
         Plus, Minus, consumerVars
<1> QED BY <1>1, <1>2

LEMMA PeekInv ==
  ASSUME RingInv, NEW n \in 0 .. MaxBatch, ConsumerPeek(n)
  PROVE  ProducerInv' /\ ConsumerInv'
<1>1. ProducerInv'
  BY DEF RingInv, ProducerInv, ConsumerPeek, Used, Minus, producerVars
<1>2. ConsumerInv'
  BY RingType, RingAssumption
     DEF RingInv, ProducerInv, ConsumerInv, ConsumerPeek, RefreshedProd, Peeked, Iterations,
         Used, Plus, Minus
<1> QED BY <1>1, <1>2

LEMMA ReadInv ==
  ASSUME RingInv, ConsumerRead
  PROVE  ProducerInv' /\ ConsumerInv'
<1>1. ProducerInv'
  BY DEF RingInv, ProducerInv, ConsumerRead, Used, Minus, producerVars
<1>2. ConsumerInv'
  BY RingType
     DEF RingInv, ConsumerInv, ConsumerRead, NextIdx, Used, Plus, Minus
<1> QED BY <1>1, <1>2

LEMMA ReleaseInv ==
  ASSUME RingInv, ConsumerRelease
  PROVE  ProducerInv' /\ ConsumerInv'
<1>1. ProducerInv'
  BY RingType
     DEF RingInv, ProducerInv, ConsumerInv, ConsumerRelease, ReleaseCount, Used,
         Plus, Minus, producerVars
<1>2. ConsumerInv'
  BY RingType
     DEF RingInv, ProducerInv, ConsumerInv, ConsumerRelease, ReleaseCount, Used,
         Plus, Minus
<1> QED BY <1>1, <1>2

LEMMA StutterInv ==
  ASSUME RingInv, UNCHANGED vars
  PROVE  ProducerInv' /\ ConsumerInv'
BY DEF RingInv, ProducerInv, ConsumerInv, Used, Minus, vars, producerVars,
       consumerVars

\* Whatever the order of the two loops' steps, neither stale copy of an index
\* promises more room, or more entries, than the shared indexes hold.
THEOREM RingInvariant == Spec => []RingInv
<1>1. Init => RingInv
  BY TypeInit, InvInit DEF RingInv
<1>2. RingInv /\ [Next]_vars => RingInv'
  <2> SUFFICES ASSUME RingInv, [Next]_vars PROVE RingInv'
    OBVIOUS
  <2>1. TypeOK'
    BY TypeProducer, TypeConsumer, TypeStutter DEF RingInv, Next
  <2>2. CASE \E n \in 1 .. MaxBatch : ProducerReserve(n)
    BY <2>1, <2>2, ReserveInv DEF RingInv
  <2>3. CASE \E v \in Value : ProducerWrite(v)
    BY <2>1, <2>3, WriteInv DEF RingInv
  <2>4. CASE ProducerSubmit
    BY <2>1, <2>4, SubmitInv DEF RingInv
  <2>5. CASE \E n \in 0 .. MaxBatch : ConsumerPeek(n)
    BY <2>1, <2>5, PeekInv DEF RingInv
  <2>6. CASE ConsumerRead
    BY <2>1, <2>6, ReadInv DEF RingInv
  <2>7. CASE ConsumerRelease
    BY <2>1, <2>7, ReleaseInv DEF RingInv
  <2>8. CASE UNCHANGED vars
    BY <2>1, <2>8, StutterInv DEF RingInv
  <2> QED
    BY <2>2, <2>3, <2>4, <2>5, <2>6, <2>7, <2>8 DEF Next, Producer, Consumer
<1> QED BY <1>1, <1>2, PTL DEF Spec

-----------------------------------------------------------------------------
(* What the invariant is for.                                              *)

\* The slot fill is about to write is at less than Size from every published
\* entry: its index is that entry's index plus k, 0 < k < Size.
LEMMA InvNoOverwrite == RingInv => NoOverwrite
<1> SUFFICES ASSUME RingInv, pPc = "copy", pLeft > 0, NEW u \in 0 .. Used - 1
             PROVE  Slot(pIdx) # Slot(Plus(cons, u))
  BY DEF NoOverwrite, Published
<1> DEFINE i == Plus(cons, u)
           d == Used + (pReady - pLeft) - u
<1>1. Used \in Nat /\ u \in Nat /\ u < Used /\ Used < IdxMod
  BY RingType DEF RingInv, Used, Minus
<1>2. i \in Index
  BY <1>1, RingType DEF RingInv, Plus, Index
<1>3. d \in 1 .. Size - 1
  BY <1>1, RingType DEF RingInv, ProducerInv, Used, Plus, Minus
<1>4. pIdx = Plus(i, d)
  BY <1>1, RingType DEF RingInv, ProducerInv, Used, Plus, Minus
<1> QED BY <1>2, <1>3, <1>4, SlotsDiffer

\* The entry service is about to read lies between the shared indexes.
LEMMA InvReadsPublished == RingInv => ReadsPublished
<1> SUFFICES ASSUME RingInv, cPc = "copy", cLeft > 0
             PROVE  cIdx \in Published
  BY DEF ReadsPublished
<1>1. cReady - cLeft \in 0 .. Used - 1
  BY RingType DEF RingInv, ConsumerInv, Used, Plus, Minus
<1>2. cIdx = Plus(cons, cReady - cLeft)
  BY DEF RingInv, ConsumerInv
<1> QED BY <1>1, <1>2 DEF Published

\* fill never overwrites an entry that was published and not yet released.
THEOREM NeverOverwrites == Spec => []NoOverwrite
BY RingInvariant, InvNoOverwrite, PTL

\* service never reads an entry that was not submitted.
THEOREM OnlyReadsPublished == Spec => []ReadsPublished
BY RingInvariant, InvReadsPublished, PTL
-----------------------------------------------------------------------------
(* The ring is a queue.  Entry(k) is the entry k places after the shared   *)
(* consumer index: everything below is said with these distances, where    *)
(* the wrap of the indexes does not show.                                  *)

Entry(k) == slots[Slot(Plus(cons, k))]

\* How many entries of its batch service has read.
Read == IF cPc = "idle" THEN 0 ELSE cReady - cLeft

LEMMA PlusPlus ==
  ASSUME NEW i \in Index, NEW m \in Nat, NEW n \in Nat, m + n <= IdxMod
  PROVE  Plus(Plus(i, m), n) = Plus(i, m + n)
BY IdxModFacts DEF Index, Plus

\* Where the two calls are, in distances from the shared consumer index.
LEMMA ProducerAt ==
  ASSUME RingInv
  PROVE  /\ cons \in Index /\ Used \in Nat /\ Written \in Nat
         /\ Used + Written <= Size /\ Size <= IdxMod /\ Size \in Nat /\ IdxMod \in Nat
         /\ prod = Plus(cons, Used)
         /\ pPc # "idle" =>
              /\ pIdx = Plus(cons, Used + Written) /\ Used + pReady <= Size
              /\ pReady \in Nat /\ pLeft \in Nat /\ Written = pReady - pLeft
              /\ pIdx = Plus(prod, Written)
              /\ pLeft > 0 => Used + Written < Size
<1>1. /\ cons \in Index /\ Used \in Nat /\ Size <= IdxMod
      /\ Size \in Nat /\ IdxMod \in Nat
  BY RingType DEF RingInv, Used, Minus, Index
<1>2. prod = Plus(cons, Used)
  BY RingType DEF RingInv, Used, Minus, Plus
<1>3. CASE pPc = "idle"
  <2>1. Written = 0
    BY <1>3 DEF Written
  <2>2. Used <= Size
    BY <1>1, RingType DEF RingInv, ProducerInv, Minus, Used
  <2> QED BY <1>1, <1>2, <1>3, <2>1, <2>2
<1>4. CASE pPc # "idle"
  <2>1. /\ pReady \in Nat /\ pLeft \in Nat /\ pLeft <= pReady
        /\ Written = pReady - pLeft /\ Written \in Nat /\ Written <= pReady
        /\ pLeft > 0 => Written < pReady
    BY <1>4, RingType DEF RingInv, ProducerInv, Written
  <2>2. Used + pReady <= Size
    BY <1>4, RingType DEF RingInv, ProducerInv, Used, Plus, Minus
  <2>3. pIdx = Plus(prod, Written)
    BY <1>4, <2>1 DEF RingInv, ProducerInv
  <2>4. Used + Written <= Size /\ (pLeft > 0 => Used + Written < Size)
    BY <1>1, <2>1, <2>2
  <2>5. pIdx = Plus(cons, Used + Written)
    BY <1>1, <1>2, <2>1, <2>3, <2>4, PlusPlus
  <2> QED BY <1>1, <1>2, <2>1, <2>2, <2>3, <2>4, <2>5
<1> QED BY <1>3, <1>4

LEMMA ConsumerAt ==
  ASSUME RingInv
  PROVE  /\ Read \in Nat /\ Read <= Used /\ Cursor = Plus(cons, Read)
         /\ Minus(prod, Cursor) = Used - Read
         /\ cPc # "idle" =>
              /\ cReady \in Nat /\ cLeft \in Nat /\ Read = cReady - cLeft
              /\ cReady <= Used /\ cLeft <= cReady
<1>1. Read \in Nat /\ Read <= Used /\ Cursor = Plus(cons, Read)
  BY RingType DEF RingInv, ConsumerInv, Read, Cursor, Used, Plus, Minus
<1>2. Minus(prod, Cursor) = Used - Read
  BY <1>1, RingType DEF RingInv, Used, Plus, Minus
<1>3. cPc # "idle" =>
        /\ cReady \in Nat /\ cLeft \in Nat /\ Read = cReady - cLeft
        /\ cReady <= Used /\ cLeft <= cReady
  BY RingType DEF RingInv, ConsumerInv, Read, Used, Plus, Minus
<1> QED BY <1>1, <1>2, <1>3

\* The abstract queue: what is between service's place and the shared producer
\* index.
Ahead == [k \in 1 .. Used - Read |-> Entry(Read + k - 1)]

LEMMA UnreadIs == RingInv => Unread = Ahead
<1> SUFFICES ASSUME RingInv PROVE Unread = Ahead
  OBVIOUS
<1>1. ASSUME NEW k \in 1 .. Used - Read
      PROVE  Plus(Cursor, k - 1) = Plus(cons, Read + k - 1)
  <2>1. k - 1 \in Nat /\ Read + (k - 1) <= IdxMod /\ Read + (k - 1) = Read + k - 1
    BY ProducerAt, ConsumerAt
  <2> QED BY <2>1, ProducerAt, ConsumerAt, PlusPlus
<1> QED BY <1>1, ConsumerAt DEF Unread, Entry, Ahead

\* Steps that do not show.
LEMMA UnreadIsNext == RingInv' => (Unread = Ahead)'
BY UnreadIs, PTL

LEMMA UnreadSame ==
  ASSUME RingInv, RingInv', Used' - Read' = Used - Read,
         \A k \in 1 .. Used - Read :
           Entry(Read + k - 1)' = Entry(Read + k - 1)
  PROVE  Unread' = Unread
BY UnreadIs, UnreadIsNext DEF Ahead, Entry

\* Steps that leave the entries and the shared indexes alone, and service where
\* it was.
LEMMA UnreadKept ==
  ASSUME RingInv, RingInv', UNCHANGED <<slots, prod, cons>>, Read' = Read
  PROVE  Unread' = Unread
<1>1. Used' = Used
  BY DEF Used
<1>2. \A k : Entry(Read + k - 1)' = Entry(Read + k - 1)
  BY DEF Entry, Plus, Slot
<1> QED BY <1>1, <1>2, UnreadSame

-----------------------------------------------------------------------------
(* Everything published was written.                                       *)

\* fill writes into a slot of none of the entries before it.
LEMMA SlotFresh ==
  ASSUME RingInv, pPc = "copy", pLeft > 0, NEW k \in 0 .. Used + Written - 1
  PROVE  Slot(Plus(cons, k)) # Slot(pIdx)
<1> DEFINE d == Used + Written - k
<1>1. /\ pIdx = Plus(cons, Used + Written) /\ Used + Written < Size
      /\ Size <= IdxMod /\ cons \in Index
      /\ Used \in Nat /\ Written \in Nat /\ IdxMod \in Nat /\ Size \in Nat
  BY ProducerAt
<1>2. k \in Nat /\ d \in 1 .. Size - 1 /\ k + d = Used + Written /\ d \in Nat
  BY <1>1
<1>3. Plus(cons, k) \in Index
  BY <1>1, <1>2, PlusClosed
<1>4. pIdx = Plus(Plus(cons, k), d)
  BY <1>1, <1>2, PlusPlus
<1> QED BY <1>2, <1>3, <1>4, SlotsDiffer

LEMMA Within ==
  ASSUME NEW a \in Nat, NEW b \in Nat, NEW c \in Nat, NEW d \in Nat,
         c + d <= a + b, NEW k \in 0 .. c + d - 1
  PROVE  k \in 0 .. a + b - 1
OBVIOUS

\* Steps of fill that write nothing and publish at most what was written.
LEMMA WrittenSame ==
  ASSUME EntriesWritten, Used \in Nat, Written \in Nat, Used' \in Nat, Written' \in Nat,
         Used' + Written' <= Used + Written, UNCHANGED <<slots, cons>>
  PROVE  EntriesWritten'
<1> SUFFICES ASSUME NEW k \in 0 .. Used' + Written' - 1
             PROVE  slots'[Slot(Plus(cons', k))] \in Value
  BY DEF EntriesWritten, Plus, Slot
<1>1. k \in 0 .. Used + Written - 1
  BY Within
<1> QED BY <1>1 DEF EntriesWritten

LEMMA ProducerAtNext ==
  RingInv' => (Used \in Nat /\ Written \in Nat)'
<1>1. RingInv => Used \in Nat /\ Written \in Nat
  BY ProducerAt
<1> QED BY <1>1, PTL

LEMMA WrittenProducer ==
  ASSUME RingInv, RingInv', EntriesWritten, Producer
  PROVE  EntriesWritten'
<1>1. Used \in Nat /\ Written \in Nat /\ Used' \in Nat /\ Written' \in Nat
  BY ProducerAt, ProducerAtNext
<1>2. ASSUME NEW b \in 1 .. MaxBatch, ProducerReserve(b) PROVE EntriesWritten'
  <2>1. UNCHANGED <<slots, cons>> /\ Used' = Used
    BY <1>2 DEF ProducerReserve, Used
  <2>2. Written' = 0
    <3>1. CASE Reserved(b) = 0
      BY <1>2, <3>1 DEF ProducerReserve, Written
    <3>2. CASE Reserved(b) # 0
      <4>1. Reserved(b) \in Nat
        BY ReserveType DEF RingInv, Counts
      <4> QED BY <1>2, <3>2, <4>1 DEF ProducerReserve, Written
    <3> QED BY <3>1, <3>2
  <2> QED BY <1>1, <2>1, <2>2, WrittenSame
<1>3. ASSUME NEW v \in Value, ProducerWrite(v) PROVE EntriesWritten'
  <2>1. CASE IdxOverflows(pIdx)
    BY <1>1, <1>3, <2>1, WrittenSame DEF ProducerWrite, Used, Written
  <2>2. CASE ~IdxOverflows(pIdx)
    <3>1. /\ pPc = "copy" /\ pLeft > 0 /\ pPc' = pPc /\ cons' = cons
          /\ slots' = [slots EXCEPT ![Slot(pIdx)] = v]
          /\ pLeft' = pLeft - 1 /\ pReady' = pReady /\ Used' = Used
      BY <1>3, <2>2 DEF ProducerWrite, Used
    <3>2. Written' = Written + 1
      <4>1. pLeft \in Nat /\ pReady \in Nat
        BY <3>1, ProducerAt
      <4> QED BY <3>1, <4>1 DEF Written
    <3>3. pIdx = Plus(cons, Used + Written) /\ cons \in Index /\ Used + Written <= IdxMod
      BY <3>1, ProducerAt
    <3>4. slots'[Slot(pIdx)] = v
      <4>1. Slot(pIdx) \in 0 .. Size - 1
        BY SlotType DEF RingInv, TypeOK
      <4> QED BY <3>1, <4>1 DEF RingInv, TypeOK
    <3>5. ASSUME NEW k \in 0 .. Used + Written PROVE slots'[Slot(Plus(cons, k))] \in Value
      <4>1. CASE k = Used + Written
        BY <3>3, <3>4, <4>1
      <4>2. CASE k # Used + Written
        <5>1. k \in 0 .. Used + Written - 1
          BY <1>1, <4>2
        <5>2. Slot(Plus(cons, k)) # Slot(pIdx)
          BY <3>1, <5>1, SlotFresh
        <5>3. slots[Slot(Plus(cons, k))] \in Value
          BY <5>1 DEF EntriesWritten
        <5>4. Slot(Plus(cons, k)) \in DOMAIN slots
          <6>1. k \in 0 .. IdxMod
            BY <1>1, <3>3, IdxModFacts
          <6> QED BY <3>3, <6>1, PlusClosed, SlotType DEF RingInv, TypeOK
        <5> QED BY <3>1, <5>2, <5>3, <5>4
      <4> QED BY <4>1, <4>2
    <3>6. Used' + Written' - 1 = Used + Written
      BY <1>1, <3>1, <3>2
    <3> QED BY <3>1, <3>5, <3>6 DEF EntriesWritten, Plus, Slot
  <2> QED BY <2>1, <2>2
<1>4. ASSUME ProducerSubmit PROVE EntriesWritten'
  <2>1. UNCHANGED <<slots, cons>> /\ Written' = 0
    BY <1>4 DEF ProducerSubmit, Written
  <2>2. Used' = Used + Written
    BY <1>4, ProducerAt, RingType
       DEF ProducerSubmit, SubmitCount, Used, Written, RingInv, Plus, Minus
  <2> QED BY <1>1, <2>1, <2>2, WrittenSame
<1> QED BY <1>2, <1>3, <1>4 DEF Producer

\* release: what is left starts cReady places further on.
LEMMA ReleaseShifts ==
  ASSUME RingInv, RingInv', ConsumerRelease
  PROVE  /\ cReady \in Nat /\ Used' = Used - cReady /\ cReady <= Used
         /\ Read = cReady /\ Read' = 0 /\ Written' = Written
         /\ UNCHANGED slots
         /\ \A k \in Nat : k + cReady <= IdxMod =>
              Plus(cons, k)' = Plus(cons, k + cReady)
<1>1. /\ cons' = Plus(cons, cReady) /\ cPc = "copy" /\ cLeft = 0 /\ cPc' = "idle"
      /\ UNCHANGED <<slots, prod, pPc, pReady, pLeft>>
  BY DEF ConsumerRelease, ReleaseCount, producerVars
<1>2. cReady \in Nat /\ cReady <= Used /\ Read = cReady /\ Read' = 0 /\ Written' = Written
  BY <1>1, ConsumerAt DEF Read, Written
<1>3. Used' = Used - cReady
  BY <1>1, <1>2, RingType DEF RingInv, Used, Plus, Minus
<1>4. ASSUME NEW k \in Nat, k + cReady <= IdxMod
      PROVE  Plus(cons, k)' = Plus(cons, k + cReady)
  <2>1. Plus(Plus(cons, cReady), k) = Plus(cons, cReady + k)
    BY <1>2, <1>4, ProducerAt, PlusPlus
  <2>2. Plus(cons, k)' = Plus(cons', k)
    BY DEF Plus, IdxMod
  <2>3. cReady + k = k + cReady
    BY <1>2
  <2> QED BY <1>1, <2>1, <2>2, <2>3
<1> QED BY <1>1, <1>2, <1>3, <1>4

LEMMA WrittenConsumer ==
  ASSUME RingInv, RingInv', EntriesWritten, Consumer
  PROVE  EntriesWritten'
<1>1. Used \in Nat /\ Written \in Nat /\ Used' \in Nat /\ Written' \in Nat
  BY ProducerAt, ProducerAtNext
<1>2. CASE (\E b \in 0 .. MaxBatch : ConsumerPeek(b)) \/ ConsumerRead
  <2>1. UNCHANGED <<slots, cons>> /\ Used' = Used /\ Written' = Written
    BY <1>2 DEF ConsumerPeek, ConsumerRead, producerVars, Used, Written
  <2> QED BY <1>1, <2>1, WrittenSame
<1>3. CASE ConsumerRelease
  <2> SUFFICES ASSUME NEW k \in 0 .. Used' + Written' - 1
               PROVE  slots'[Slot(Plus(cons, k)')] \in Value
    BY DEF EntriesWritten, Slot
  <2>1. k \in Nat /\ k + cReady \in 0 .. Used + Written - 1 /\ k + cReady <= IdxMod
    BY <1>1, <1>3, ReleaseShifts, ProducerAt
  <2>2. slots[Slot(Plus(cons, k + cReady))] \in Value
    BY <2>1 DEF EntriesWritten
  <2> QED BY <1>3, <2>1, <2>2, ReleaseShifts
<1> QED BY <1>2, <1>3 DEF Consumer

\* No slot that was never written is ever submitted, and no part of a batch
\* that a panic cut short: what service reads is an address fill wrote.
THEOREM OnlyWrittenSubmitted == Spec => []EntriesWritten
<1>1. Init => EntriesWritten
  BY IdxModFacts DEF Init, EntriesWritten, Used, Written, Minus
<1>2. RingInv /\ RingInv' /\ EntriesWritten /\ [Next]_vars => EntriesWritten'
  <2>1. RingInv /\ EntriesWritten /\ UNCHANGED vars => EntriesWritten'
    BY DEF EntriesWritten, Used, Written, Plus, Minus, Slot, vars, producerVars, consumerVars
  <2> QED BY <2>1, WrittenProducer, WrittenConsumer DEF Next
<1> QED BY <1>1, <1>2, RingInvariant, PTL DEF Spec

-----------------------------------------------------------------------------
(* The refinement: submit is Put, one iteration of service's loop is Take, *)
(* and no other step shows.                                                *)

\* The queue is a sequence of addresses.
LEMMA UnreadSeq ==
  ASSUME RingInv, EntriesWritten
  PROVE  /\ Unread \in Seq(Value) /\ Len(Unread) = Used - Read
         /\ \A k \in 1 .. Used - Read : Unread[k] = Entry(Read + k - 1)
<1>1. /\ Used \in Nat /\ Written \in Nat /\ Read \in Nat /\ Read <= Used
      /\ Used - Read \in Nat
  BY ProducerAt, ConsumerAt
<1>2. ASSUME NEW k \in 1 .. Used - Read PROVE Entry(Read + k - 1) \in Value
  <2>1. Read + k - 1 \in 0 .. Used + Written - 1
    BY <1>1
  <2> QED BY <2>1 DEF EntriesWritten, Entry
<1>3. Ahead \in [1 .. Used - Read -> Value]
  BY <1>2 DEF Ahead
<1>4. Unread = Ahead
  BY UnreadIs
<1>5. \A n \in Nat : \A f \in [1 .. n -> Value] : f \in Seq(Value) /\ Len(f) = n
  OBVIOUS
<1> QED BY <1>1, <1>3, <1>4, <1>5 DEF Ahead

LEMMA UnreadSeqNext ==
  RingInv' /\ EntriesWritten' =>
    (/\ Unread \in Seq(Value) /\ Len(Unread) = Used - Read
     /\ \A k \in 1 .. Used - Read : Unread[k] = Entry(Read + k - 1))'
<1>1. RingInv /\ EntriesWritten =>
        /\ Unread \in Seq(Value) /\ Len(Unread) = Used - Read
        /\ \A k \in 1 .. Used - Read : Unread[k] = Entry(Read + k - 1)
  BY UnreadSeq
<1> QED BY <1>1, PTL

\* The steps that do not show.
LEMMA HiddenSteps ==
  ASSUME RingInv, RingInv',
         \/ \E b \in 1 .. MaxBatch : ProducerReserve(b)
         \/ \E v \in Value : ProducerWrite(v)
         \/ \E b \in 0 .. MaxBatch : ConsumerPeek(b)
         \/ ConsumerRelease \/ UNCHANGED vars
  PROVE  UNCHANGED <<Unread, out>>
<1>1. UNCHANGED out
  BY DEF ProducerReserve, ProducerWrite, ConsumerPeek, ConsumerRelease, vars, consumerVars
<1>2. CASE (\E b \in 1 .. MaxBatch : ProducerReserve(b)) \/ UNCHANGED vars
  BY <1>2, UnreadKept DEF ProducerReserve, Read, vars, consumerVars
<1>3. ASSUME NEW v \in Value, ProducerWrite(v) PROVE Unread' = Unread
  <2>1. UNCHANGED <<prod, cons>> /\ Used' = Used /\ Read' = Read /\ pPc = "copy" /\ pLeft > 0
    BY <1>3 DEF ProducerWrite, Used, Read, consumerVars
  <2>2. ASSUME NEW k \in 1 .. Used - Read
        PROVE  slots'[Slot(Plus(cons, Read + k - 1))] = Entry(Read + k - 1)
    <3>1. /\ Used \in Nat /\ Written \in Nat /\ Read \in Nat /\ Read <= Used
          /\ cons \in Index /\ Used <= IdxMod /\ IdxMod \in Nat
      BY ProducerAt, ConsumerAt
    <3>2. Read + k - 1 \in 0 .. Used + Written - 1 /\ Read + k - 1 \in 0 .. IdxMod
      BY <3>1
    <3>3. Slot(Plus(cons, Read + k - 1)) # Slot(pIdx)
      BY <2>1, <3>2, SlotFresh
    <3>4. Slot(Plus(cons, Read + k - 1)) \in DOMAIN slots
      BY <3>1, <3>2, PlusClosed, SlotType DEF RingInv, TypeOK
    <3> QED BY <1>3, <3>3, <3>4 DEF ProducerWrite, Entry
  <2> QED BY <2>1, <2>2, UnreadSame DEF Entry, Plus, Slot
<1>4. ASSUME NEW b \in 0 .. MaxBatch, ConsumerPeek(b) PROVE Unread' = Unread
  <2>1. UNCHANGED <<slots, prod, cons>> /\ cPc = "idle"
    BY <1>4 DEF ConsumerPeek
  <2>2. Read' = 0
    <3>1. CASE Peeked(b) = 0
      BY <1>4, <3>1 DEF ConsumerPeek, Read
    <3>2. CASE Peeked(b) # 0
      <4>1. Peeked(b) \in Nat
        BY PeekType DEF RingInv, Counts
      <4> QED BY <1>4, <3>2, <4>1 DEF ConsumerPeek, Iterations, Read
    <3> QED BY <3>1, <3>2
  <2> QED BY <2>1, <2>2, UnreadKept DEF Read
<1>5. CASE ConsumerRelease
  <2>1. /\ cReady \in Nat /\ Used' = Used - cReady /\ cReady <= Used
        /\ Read = cReady /\ Read' = 0 /\ UNCHANGED slots
        /\ Used \in Nat /\ Used <= IdxMod /\ IdxMod \in Nat
    BY <1>5, ReleaseShifts, ProducerAt
  <2>2. ASSUME NEW k \in 1 .. Used - Read
        PROVE  Entry(Read + k - 1)' = Entry(Read + k - 1)
    <3>1. /\ k - 1 \in Nat /\ (k - 1) + cReady <= IdxMod
          /\ Read + k - 1 = (k - 1) + cReady
      BY <2>1
    <3>2. Plus(cons, k - 1)' = Plus(cons, (k - 1) + cReady)
      BY <1>5, <3>1, ReleaseShifts
    <3>3. Read' + k - 1 = k - 1
      BY <2>1
    <3> QED BY <2>1, <3>1, <3>2, <3>3 DEF Entry, Slot, Plus, IdxMod
  <2>3. Used' - Read' = Used - Read
    BY <2>1
  <2> QED BY <1>1, <2>2, <2>3, UnreadSame
<1> QED BY <1>1, <1>2, <1>3, <1>4, <1>5

\* submit publishes the batch, which has room.
LEMMA SubmitPuts ==
  ASSUME RingInv, RingInv', EntriesWritten, EntriesWritten', ProducerSubmit
  PROVE  [Fifo!Next]_<<Unread, out>>
<1>1. /\ UNCHANGED <<slots, cons>> /\ UNCHANGED out /\ Read' = Read
      /\ pPc = "copy" /\ pLeft = 0
  BY DEF ProducerSubmit, consumerVars, Read
<1>2. /\ Used \in Nat /\ Read \in Nat /\ Read <= Used /\ pReady \in Nat
      /\ Written = pReady /\ Used + pReady <= Size /\ Size \in Nat
  BY <1>1, ProducerAt, ConsumerAt
<1>3. Used' = Used + pReady
  BY <1>1, <1>2, RingType
     DEF ProducerSubmit, SubmitCount, Used, RingInv, Plus, Minus
<1> DEFINE batch == [k \in 1 .. pReady |-> Entry(Used + k - 1)]
<1>4. batch \in [1 .. pReady -> Value] /\ batch \in Seq(Value) /\ Len(batch) = pReady
  <2>1. ASSUME NEW k \in 1 .. pReady PROVE Entry(Used + k - 1) \in Value
    <3>1. Used + k - 1 \in 0 .. Used + Written - 1
      BY <1>2
    <3> QED BY <3>1 DEF EntriesWritten, Entry
  <2>2. batch \in [1 .. pReady -> Value]
    BY <2>1
  <2>3. \A n \in Nat : \A f \in [1 .. n -> Value] : f \in Seq(Value) /\ Len(f) = n
    OBVIOUS
  <2> QED BY <1>2, <2>2, <2>3
<1>5. /\ Unread \in Seq(Value) /\ Len(Unread) = Used - Read
      /\ \A k \in 1 .. Used - Read : Unread[k] = Entry(Read + k - 1)
  BY UnreadSeq
<1>6. /\ Unread' \in Seq(Value) /\ Len(Unread') = Used + pReady - Read
      /\ \A k \in 1 .. Used + pReady - Read : Unread'[k] = Entry(Read + k - 1)
  <2>1. Used' - Read' = Used + pReady - Read
    BY <1>1, <1>2, <1>3
  <2>2. /\ Unread' \in Seq(Value) /\ Len(Unread') = Used' - Read'
        /\ \A k \in 1 .. Used' - Read' : Unread'[k] = Entry(Read + k - 1)'
    BY UnreadSeqNext
  <2>3. \A k : Entry(Read + k - 1)' = Entry(Read + k - 1)
    BY <1>1 DEF Entry, Plus, Slot
  <2> QED BY <2>1, <2>2, <2>3
<1>7. /\ Unread \o batch \in Seq(Value)
      /\ Len(Unread \o batch) = (Used - Read) + pReady
      /\ \A k \in 1 .. (Used - Read) + pReady :
           (Unread \o batch)[k] = IF k <= Used - Read THEN Unread[k]
                                  ELSE batch[k - (Used - Read)]
  <2>1. /\ Unread \o batch \in Seq(Value)
        /\ Len(Unread \o batch) = Len(Unread) + Len(batch)
        /\ \A k \in 1 .. Len(Unread) + Len(batch) :
             (Unread \o batch)[k] = IF k <= Len(Unread) THEN Unread[k]
                                    ELSE batch[k - Len(Unread)]
    <3> HIDE DEF batch
    <3> QED BY <1>4, <1>5, ConcatProperties
  <2>2. Len(Unread) = Used - Read /\ Len(batch) = pReady
    BY <1>4, <1>5
  <2> HIDE DEF batch
  <2> QED BY <2>1, <2>2
<1>8. Unread' = Unread \o batch
  <2>1. Used + pReady - Read = (Used - Read) + pReady
    BY <1>2
  <2>2. ASSUME NEW k \in 1 .. (Used - Read) + pReady
        PROVE  Unread'[k] = (Unread \o batch)[k]
    <3>1. Unread'[k] = Entry(Read + k - 1)
      BY <1>6, <2>1
    <3>2. CASE k <= Used - Read
      <4>1. k \in 1 .. Used - Read
        BY <1>2, <3>2
      <4> QED BY <1>5, <1>7, <3>1, <3>2, <4>1
    <3>3. CASE ~(k <= Used - Read)
      <4>1. /\ k - (Used - Read) \in 1 .. pReady
            /\ Used + (k - (Used - Read)) - 1 = Read + k - 1
        BY <1>2, <3>3
      <4>2. batch[k - (Used - Read)] = Entry(Read + k - 1)
        BY <4>1
      <4> QED BY <1>7, <3>1, <3>3, <4>2
    <3> QED BY <3>2, <3>3
  <2> QED BY <1>6, <1>7, <2>1, <2>2, SeqEqual
<1>9. Len(Unread) + Len(batch) <= Size
  BY <1>2, <1>4, <1>5
<1>10. CASE pReady = 0
  <2>1. batch = <<>>
    BY <1>4, <1>10
  <2>2. Unread \o <<>> = Unread
    BY <1>5, ConcatEmptySeq
  <2> QED BY <1>1, <1>8, <2>1, <2>2
<1>11. CASE pReady # 0
  <2>1. pReady \in 1 .. Size
    BY <1>2, <1>11
  <2>2. Fifo!Put(batch)
    BY <1>1, <1>8, <1>9 DEF Fifo!Put
  <2> QED BY <1>4, <2>1, <2>2 DEF Fifo!Next
<1> QED BY <1>10, <1>11

\* One iteration of service's loop takes the oldest entry, or panics.
LEMMA ReadTakes ==
  ASSUME RingInv, RingInv', EntriesWritten, EntriesWritten', ConsumerRead
  PROVE  [Fifo!Next]_<<Unread, out>>
<1>1. CASE IdxOverflows(cIdx)
  <2>1. UNCHANGED <<slots, prod, cons, out>> /\ Read' = Read
    BY <1>1 DEF ConsumerRead, Read
  <2> QED BY <2>1, UnreadKept
<1>2. CASE ~IdxOverflows(cIdx)
  <2>1. /\ UNCHANGED <<slots, prod, cons>> /\ Used' = Used
        /\ cPc = "copy" /\ cPc' = cPc /\ cLeft > 0 /\ cLeft' = cLeft - 1 /\ cReady' = cReady
        /\ out' = slots[Slot(cIdx)]
    BY <1>2 DEF ConsumerRead, Used
  <2>2. /\ Used \in Nat /\ Read \in Nat /\ cReady \in Nat /\ cLeft \in Nat
        /\ Read = cReady - cLeft /\ cReady <= Used /\ cIdx = Plus(cons, Read)
    BY <2>1, ProducerAt, ConsumerAt DEF Cursor
  <2>3. Read' = Read + 1 /\ Read < Used
    BY <2>1, <2>2 DEF Read
  <2>4. /\ Unread \in Seq(Value) /\ Len(Unread) = Used - Read
        /\ \A k \in 1 .. Used - Read : Unread[k] = Entry(Read + k - 1)
    BY UnreadSeq
  <2>5. /\ Unread' \in Seq(Value) /\ Len(Unread') = Used - (Read + 1)
        /\ \A k \in 1 .. Used - (Read + 1) : Unread'[k] = Entry(Read + 1 + k - 1)
    BY <2>1, <2>3, UnreadSeqNext DEF Entry, Plus, Slot
  <2>6. Unread # <<>>
    BY <2>2, <2>3, <2>4
  <2>7. out' = Head(Unread)
    <3>1. 1 \in 1 .. Used - Read /\ Read + 1 - 1 = Read
      BY <2>2, <2>3
    <3>2. Unread[1] = Entry(Read)
      BY <2>4, <3>1
    <3>3. Head(Unread) = Unread[1]
      BY <2>4, <2>6
    <3> QED BY <2>1, <2>2, <3>2, <3>3 DEF Entry
  <2>8. /\ Tail(Unread) \in Seq(Value) /\ Len(Tail(Unread)) = Used - Read - 1
        /\ \A k \in 1 .. Used - Read - 1 : Tail(Unread)[k] = Unread[k + 1]
    BY <2>4, <2>6, HeadTailProperties
  <2>9. Unread' = Tail(Unread)
    <3>1. Used - (Read + 1) = Used - Read - 1
      BY <2>2
    <3>2. ASSUME NEW k \in 1 .. Used - Read - 1 PROVE Unread'[k] = Tail(Unread)[k]
      <4>1. k + 1 \in 1 .. Used - Read /\ Read + (k + 1) - 1 = Read + 1 + k - 1
        BY <2>2
      <4>2. Unread[k + 1] = Entry(Read + 1 + k - 1)
        BY <2>4, <4>1
      <4> QED BY <2>5, <2>8, <3>1, <4>2
    <3> QED BY <2>5, <2>8, <3>1, <3>2, SeqEqual
  <2> QED BY <2>6, <2>7, <2>9 DEF Fifo!Next, Fifo!Take
<1> QED BY <1>1, <1>2

\* For every ring size, index width, batch size and kind of build: whatever the
\* interleaving of fill and service, what service reads is what fill submitted,
\* each entry once and in order, and never more than Size of them are waiting.
THEOREM RingImplementsFifo == Spec => IsFifo
<1>1. Init => Fifo!Init
  <2> SUFFICES ASSUME Init PROVE Unread = <<>> /\ out = NoValue
    BY DEF Fifo!Init
  <2>1. Minus(prod, Cursor) = 0
    BY DEF Init, Cursor, Minus
  <2>2. Unread = [k \in 1 .. 0 |-> slots[Slot(Plus(Cursor, k - 1))]]
    BY <2>1 DEF Unread
  <2> QED BY <2>2 DEF Init
<1>2. RingInv /\ RingInv' /\ EntriesWritten /\ EntriesWritten' /\ [Next]_vars
        => [Fifo!Next]_<<Unread, out>>
  <2> SUFFICES ASSUME RingInv, RingInv', EntriesWritten, EntriesWritten', [Next]_vars
               PROVE  [Fifo!Next]_<<Unread, out>>
    OBVIOUS
  <2>1. CASE ProducerSubmit
    BY <2>1, SubmitPuts
  <2>2. CASE ConsumerRead
    BY <2>2, ReadTakes
  <2>3. CASE \/ \E b \in 1 .. MaxBatch : ProducerReserve(b)
             \/ \E v \in Value : ProducerWrite(v)
             \/ \E b \in 0 .. MaxBatch : ConsumerPeek(b)
             \/ ConsumerRelease \/ UNCHANGED vars
    BY <2>3, HiddenSteps
  <2> QED BY <2>1, <2>2, <2>3 DEF Next, Producer, Consumer
<1> QED
  BY <1>1, <1>2, RingInvariant, OnlyWrittenSubmitted, PTL DEF Spec, IsFifo, Fifo!Spec
=============================================================================
