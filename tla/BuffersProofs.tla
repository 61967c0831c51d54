--------------------------- MODULE BuffersProofs ----------------------------
(***************************************************************************)
(* Buffers, proved for every number of buffers, every length above the     *)
(* reserved bytes, all packet lengths, and all umems, sockets and ring     *)
(* sizes of LifetimeProofs.                                                *)
(***************************************************************************)
EXTENDS Buffers, LifetimeProofs

-----------------------------------------------------------------------------
(* The inductive invariant.                                                *)

\* The address of a buffer is the one its chunk got first, whatever it went
\* through, and its packet fits.
Placed ==
  \A c \in Chunk :
    at[c] # NoWhere =>
      /\ buf[c].addr = Start(c) + Reserved
      /\ buf[c].cap = SliceLen /\ buf[c].len <= SliceLen

\* A ring that holds a buffer is one of an object whose Drop has not run.
RingsThere ==
  \A c \in Chunk :
    at[c][1] \in Umem \cup Socket => phase[at[c][1]] \in {"live", "dying"}

\* What is of which kind.
BufTypes ==
  /\ TypeOK
  /\ at \in [Chunk -> {InProgram, NoWhere} \cup (Umem \cup Socket) \X Ring]
  /\ buf \in [Chunk -> [addr : Nat, len : Nat, cap : Nat]]

\* The inductive invariant.
BufInv == LifetimeInv /\ BufTypes /\ Placed /\ RingsThere

-----------------------------------------------------------------------------
(* The arithmetic of chunks.                                               *)

\* A chunk begins at a natural number and ends within the area.
LEMMA StartType ==
  ASSUME NEW c \in Chunk
  PROVE  /\ c \in Nat /\ Start(c) \in Nat /\ BufNum * BufLen \in Nat
         /\ Start(c) + BufLen <= BufNum * BufLen
<1>1. c \in Nat /\ BufNum \in Nat /\ BufLen \in Nat /\ c + 1 <= BufNum
  BY BuffersAssumption DEF Chunk
<1>2. c * BufLen \in Nat /\ BufNum * BufLen \in Nat
  BY <1>1
<1>3. (c + 1) * BufLen <= BufNum * BufLen
  BY <1>1
<1>4. (c + 1) * BufLen = c * BufLen + BufLen
  BY <1>1
<1> QED BY <1>1, <1>2, <1>3, <1>4 DEF Start

\* Chunks do not overlap.
LEMMA ChunksApart ==
  ASSUME NEW c \in Chunk, NEW d \in Chunk, c < d
  PROVE  Start(c) + BufLen <= Start(d)
<1>1. c \in Nat /\ d \in Nat /\ BufLen \in Nat /\ c + 1 <= d
  BY BuffersAssumption DEF Chunk
<1>2. (c + 1) * BufLen <= d * BufLen
  BY <1>1
<1>3. (c + 1) * BufLen = c * BufLen + BufLen
  BY <1>1
<1> QED BY <1>2, <1>3 DEF Start

\* An address within a chunk leads back to the chunk.
LEMMA BaseOfChunk ==
  ASSUME NEW c \in Chunk, NEW r \in 0 .. BufLen - 1
  PROVE  (Start(c) + r) % BufLen = r /\ Base(Start(c) + r) = Start(c)
<1>1. c \in Nat /\ r \in Nat /\ BufLen \in Nat /\ r < BufLen
  BY BuffersAssumption DEF Chunk
<1> DEFINE addr == Start(c) + r
<1>2. addr \in Nat /\ addr = c * BufLen + r
  BY <1>1, StartType DEF Start
<1>3. addr % BufLen = r
  <2>1. (c * BufLen + r) % BufLen = r
    BY <1>1
  <2> QED BY <2>1 DEF Start
<1>4. Base(addr) = addr - (addr % BufLen)
  BY DEF Base
<1> HIDE DEF addr
<1>5. Base(addr) = Start(c)
  BY <1>1, <1>2, <1>3, <1>4, StartType DEF Start
<1> QED BY <1>3, <1>5 DEF addr

\* The reserved bytes leave a slice that ends with the chunk.
LEMMA SliceInChunk ==
  /\ SliceLen \in Nat /\ SliceLen > 0 /\ SliceLen + Reserved = BufLen
  /\ Reserved \in 0 .. BufLen - 1 /\ Length \subseteq Nat
BY BuffersAssumption DEF SliceLen

\* The places a buffer can be are different.
LEMMA Places ==
  /\ InProgram[1] = Area /\ NoWhere[1] = NoObject /\ InProgram # NoWhere
  /\ InProgram[2] # "tx" /\ NoWhere[2] # "tx"
  /\ \A o \in Umem \cup Socket, r \in Ring :
       <<o, r>> # InProgram /\ <<o, r>> # NoWhere /\ <<o, r>> \in (Umem \cup Socket) \X Ring
BY ObjectKinds DEF InProgram, NoWhere, Ring

-----------------------------------------------------------------------------
(* Each step keeps the buffers in place.                                   *)

LEMMA MapBufsKeeps ==
  ASSUME BufInv, MapBufs PROVE BufTypes' /\ Placed' /\ RingsThere'
<1>1. TypeOK'
  BY NewAreaKeeps DEF BufInv, MapBufs, LifetimeInv
<1>2. /\ \A c \in Chunk : at'[c] = InProgram
      /\ at' \in [Chunk -> {InProgram, NoWhere} \cup (Umem \cup Socket) \X Ring]
  BY DEF MapBufs
<1>3. \A c \in Chunk : BufAt(Start(c) + Reserved, 0) =
        [addr |-> Start(c) + Reserved, len |-> 0, cap |-> SliceLen]
  BY DEF BufAt
<1>4. /\ \A c \in Chunk : buf'[c] = [addr |-> Start(c) + Reserved, len |-> 0, cap |-> SliceLen]
      /\ buf' = [c \in Chunk |-> buf'[c]]
  BY <1>3 DEF MapBufs
<1>5. buf' \in [Chunk -> [addr : Nat, len : Nat, cap : Nat]]
  BY <1>4, StartType, SliceInChunk
<1>6. BufTypes'
  BY <1>1, <1>2, <1>5 DEF BufTypes
<1>7. Placed'
  BY <1>4, SliceInChunk DEF Placed
<1>8. RingsThere'
  BY <1>2, Places, ObjectKinds DEF RingsThere
<1> QED BY <1>6, <1>7, <1>8

\* What the buffers look like after a step that moves one of them and changes
\* at most what is not its address.
LEMMA MovedKeeps ==
  ASSUME BufInv, NEW c \in Chunk, at[c] # NoWhere, UNCHANGED vars,
         NEW place \in {InProgram} \cup (Umem \cup Socket) \X Ring,
         place[1] \in Umem \cup Socket => phase[place[1]] \in {"live", "dying"},
         at' = [at EXCEPT ![c] = place],
         NEW n \in 0 .. SliceLen,
         buf' = [buf EXCEPT ![c] = [addr |-> Start(c) + Reserved, len |-> n, cap |-> SliceLen]]
  PROVE  BufTypes' /\ Placed' /\ RingsThere'
<1>1. TypeOK'
  BY DEF BufInv, BufTypes, TypeOK, vars
<1>2. at' \in [Chunk -> {InProgram, NoWhere} \cup (Umem \cup Socket) \X Ring]
  BY DEF BufInv, BufTypes
<1>3. /\ buf'[c] = [addr |-> Start(c) + Reserved, len |-> n, cap |-> SliceLen]
      /\ \A d \in Chunk \ {c} : buf'[d] = buf[d] /\ at'[d] = at[d]
      /\ at'[c] = place
  BY DEF BufInv, BufTypes
<1>4. buf' \in [Chunk -> [addr : Nat, len : Nat, cap : Nat]]
  <2>1. [addr |-> Start(c) + Reserved, len |-> n, cap |-> SliceLen]
          \in [addr : Nat, len : Nat, cap : Nat]
    BY StartType, SliceInChunk
  <2> QED BY <2>1 DEF BufInv, BufTypes
<1>5. BufTypes'
  BY <1>1, <1>2, <1>4 DEF BufTypes
<1>6. Placed'
  BY <1>3, SliceInChunk DEF BufInv, Placed
<1>7. RingsThere'
  BY <1>3 DEF BufInv, RingsThere, vars
<1> QED BY <1>5, <1>6, <1>7

\* The parent of a socket that is not gone is a umem, and not gone either.
LEMMA UmemOfSocket ==
  ASSUME BufInv, NEW s \in Socket, phase[s] = "live"
  PROVE  parent[s] \in Umem /\ phase[parent[s]] = "live"
<1>1. s \in Object \ {Area}
  BY ObjectKinds
<1> QED BY <1>1, InvParentsOutlive DEF BufInv, LifetimeInv, ParentKinds, ParentsOutlive

\* A handle's object is alive.
LEMMA HandleIsLive ==
  ASSUME BufInv, NEW o, NEW r, <<o, r>> \in handles
  PROVE  o \in Umem \cup Socket /\ r \in Ring /\ phase[o] = "live"
<1>1. <<o, r>>[1] = o /\ <<o, r>> \in (Umem \cup Socket) \X Ring
  BY DEF BufInv, LifetimeInv, TypeOK
<1>2. phase[<<o, r>>[1]] = "live"
  BY InvHandlesUsable DEF BufInv, HandlesUsable
<1> QED BY <1>1, <1>2

\* A buffer that is somewhere.
LEMMA Buffer ==
  ASSUME BufInv, NEW c \in Chunk, at[c] # NoWhere
  PROVE  \E len \in 0 .. SliceLen :
           buf[c] = [addr |-> Start(c) + Reserved, len |-> len, cap |-> SliceLen]
<1>1. buf[c] \in [addr : Nat, len : Nat, cap : Nat]
  BY DEF BufInv, BufTypes
<1>2. buf[c] = [addr |-> buf[c].addr, len |-> buf[c].len, cap |-> buf[c].cap]
  BY <1>1
<1>3. buf[c].len \in 0 .. SliceLen
  BY <1>1, SliceInChunk DEF BufInv, Placed
<1> QED BY <1>2, <1>3 DEF BufInv, Placed

\* Its new length, or its new address and length.
LEMMA NewLen ==
  ASSUME BufInv, NEW c \in Chunk, at[c] # NoWhere, NEW n
  PROVE  [buf EXCEPT ![c].len = n] =
           [buf EXCEPT ![c] = [addr |-> Start(c) + Reserved, len |-> n, cap |-> SliceLen]]
<1>1. PICK len : buf[c] = [addr |-> Start(c) + Reserved, len |-> len, cap |-> SliceLen]
  BY Buffer
<1>2. [buf[c] EXCEPT !.len = n] = [addr |-> Start(c) + Reserved, len |-> n, cap |-> SliceLen]
  BY <1>1
<1> QED BY <1>2

LEMMA NewAddrAndLen ==
  ASSUME BufInv, NEW c \in Chunk, at[c] # NoWhere, NEW n
  PROVE  [buf EXCEPT ![c].addr = Start(c) + Reserved, ![c].len = n] =
           [buf EXCEPT ![c] = [addr |-> Start(c) + Reserved, len |-> n, cap |-> SliceLen]]
<1>1. PICK len : buf[c] = [addr |-> Start(c) + Reserved, len |-> len, cap |-> SliceLen]
  BY Buffer
<1> DEFINE a == Start(c) + Reserved
           r == [buf[c] EXCEPT !.addr = a]
<1>2. r = [addr |-> a, len |-> len, cap |-> SliceLen]
  BY <1>1
<1>3. [buf EXCEPT ![c].addr = a, ![c].len = n] = [buf EXCEPT ![c] = [r EXCEPT !.len = n]]
  OBVIOUS
<1> HIDE DEF a, r
<1>4. [r EXCEPT !.len = n] = [addr |-> a, len |-> n, cap |-> SliceLen]
  BY <1>2
<1> QED BY <1>3, <1>4 DEF a

\* The program's and the kernel's moves: whatever the way, the address is that
\* of the chunk afterwards.
LEMMA MoveKeeps ==
  ASSUME BufInv, NEW c \in Chunk, Move(c)
  PROVE  UNCHANGED vars /\ BufTypes' /\ Placed' /\ RingsThere'
<1>1. /\ at \in [Chunk -> {InProgram, NoWhere} \cup (Umem \cup Socket) \X Ring]
      /\ buf \in [Chunk -> [addr : Nat, len : Nat, cap : Nat]]
  BY DEF BufInv, BufTypes
<1>2. at[c] # NoWhere => /\ buf[c].addr = Start(c) + Reserved
                         /\ buf[c].cap = SliceLen /\ buf[c].len \in 0 .. SliceLen
                         /\ buf[c] = [addr |-> Start(c) + Reserved, len |-> buf[c].len,
                                      cap |-> SliceLen]
  <2> SUFFICES ASSUME at[c] # NoWhere
               PROVE  /\ buf[c].addr = Start(c) + Reserved
                      /\ buf[c].cap = SliceLen /\ buf[c].len \in 0 .. SliceLen
                      /\ buf[c] = [addr |-> Start(c) + Reserved, len |-> buf[c].len,
                                   cap |-> SliceLen]
    OBVIOUS
  <2>1. PICK len \in 0 .. SliceLen :
          buf[c] = [addr |-> Start(c) + Reserved, len |-> len, cap |-> SliceLen]
    BY Buffer
  <2> QED BY <2>1
<1>3. 0 \in 0 .. SliceLen
  BY SliceInChunk
<1>4. ASSUME NEW n \in Length, SetLen(c, n)
      PROVE  UNCHANGED vars /\ BufTypes' /\ Placed' /\ RingsThere'
  <2>1. at[c] = InProgram /\ at[c] # NoWhere /\ UNCHANGED vars
    BY <1>4, Places DEF SetLen
  <2>2. n \in 0 .. SliceLen
    BY <1>2, <1>4, <2>1, SliceInChunk DEF SetLen, Fits
  <2>3. at' = [at EXCEPT ![c] = InProgram]
    BY <1>1, <1>4, <2>1 DEF SetLen
  <2>4. buf' = [buf EXCEPT ![c] = [addr |-> Start(c) + Reserved, len |-> n, cap |-> SliceLen]]
    <3>1. [buf EXCEPT ![c].len = n]
            = [buf EXCEPT ![c] = [addr |-> Start(c) + Reserved, len |-> n, cap |-> SliceLen]]
      BY <2>1, NewLen
    <3> QED BY <1>4, <3>1 DEF SetLen
  <2> QED BY <2>1, <2>2, <2>3, <2>4, Places, ObjectKinds, MovedKeeps
<1>5. ASSUME NEW u \in Umem, FillOne(c, u)
      PROVE  UNCHANGED vars /\ BufTypes' /\ Placed' /\ RingsThere'
  <2>1. at[c] # NoWhere /\ UNCHANGED vars /\ at' = [at EXCEPT ![c] = <<u, "fq">>]
    BY <1>5, Places DEF FillOne
  <2>2. phase[u] = "live" /\ <<u, "fq">> \in (Umem \cup Socket) \X Ring
    BY <1>5, HandleIsLive DEF FillOne, Ring
  <2>3. buf' = [buf EXCEPT ![c] = [addr |-> Start(c) + Reserved, len |-> 0, cap |-> SliceLen]]
    <3>1. [buf EXCEPT ![c].len = 0]
            = [buf EXCEPT ![c] = [addr |-> Start(c) + Reserved, len |-> 0, cap |-> SliceLen]]
      BY <2>1, NewLen
    <3> QED BY <1>5, <3>1 DEF FillOne, AddressOnly
  <2> QED BY <1>3, <2>1, <2>2, <2>3, MovedKeeps
<1>6. ASSUME NEW u \in Umem, ServiceOne(c, u)
      PROVE  UNCHANGED vars /\ BufTypes' /\ Placed' /\ RingsThere'
  <2>1. at[c] # NoWhere /\ UNCHANGED vars /\ at' = [at EXCEPT ![c] = InProgram]
    BY <1>6, Places DEF ServiceOne, Ring
  <2>2. buf' = [buf EXCEPT ![c] = [addr |-> Start(c) + Reserved, len |-> 0, cap |-> SliceLen]]
    BY <1>1, <1>2, <1>6, <2>1 DEF ServiceOne, BufAt, CompAddr
  <2> QED BY <1>3, <2>1, <2>2, Places, ObjectKinds, MovedKeeps
<1>7. ASSUME NEW s \in Socket, RecvOne(c, s)
      PROVE  UNCHANGED vars /\ BufTypes' /\ Placed' /\ RingsThere'
  <2>1. at[c] # NoWhere /\ UNCHANGED vars /\ at' = [at EXCEPT ![c] = InProgram]
    BY <1>7, Places DEF RecvOne, Ring
  <2>2. buf' = [buf EXCEPT ![c] = [addr |-> Start(c) + Reserved, len |-> buf[c].len,
                                   cap |-> SliceLen]]
    BY <1>1, <1>2, <1>7, <2>1 DEF RecvOne, BufAt
  <2> QED BY <1>2, <2>1, <2>2, Places, ObjectKinds, MovedKeeps
<1>8. ASSUME NEW s \in Socket, SendOne(c, s)
      PROVE  UNCHANGED vars /\ BufTypes' /\ Placed' /\ RingsThere'
  <2>1. at[c] # NoWhere /\ UNCHANGED vars /\ at' = [at EXCEPT ![c] = <<s, "tx">>]
    BY <1>8, Places DEF SendOne
  <2>2. phase[s] = "live" /\ <<s, "tx">> \in (Umem \cup Socket) \X Ring
    BY <1>8, HandleIsLive DEF SendOne, Ring
  <2>3. buf' = [buf EXCEPT ![c] = [addr |-> Start(c) + Reserved, len |-> buf[c].len,
                                   cap |-> SliceLen]]
    BY <1>1, <1>2, <1>8, <2>1 DEF SendOne
  <2> QED BY <1>2, <2>1, <2>2, <2>3, MovedKeeps
<1>9. ASSUME NEW s \in Socket, KernelSent(c, s)
      PROVE  UNCHANGED vars /\ BufTypes' /\ Placed' /\ RingsThere'
  <2>1. at[c] # NoWhere /\ UNCHANGED vars /\ at' = [at EXCEPT ![c] = <<parent[s], "cq">>]
    BY <1>9, Places DEF KernelSent, Ring
  <2>2. phase[parent[s]] = "live" /\ <<parent[s], "cq">> \in (Umem \cup Socket) \X Ring
    BY <1>9, UmemOfSocket DEF KernelSent, Ring
  <2>3. buf' = [buf EXCEPT ![c] = [addr |-> Start(c) + Reserved, len |-> 0, cap |-> SliceLen]]
    <3>1. [buf EXCEPT ![c].len = 0]
            = [buf EXCEPT ![c] = [addr |-> Start(c) + Reserved, len |-> 0, cap |-> SliceLen]]
      BY <2>1, NewLen
    <3> QED BY <1>9, <3>1 DEF KernelSent, AddressOnly
  <2> QED BY <1>3, <2>1, <2>2, <2>3, MovedKeeps
<1>10. ASSUME NEW s \in Socket, NEW n \in Length, KernelReceive(c, s, n)
       PROVE  UNCHANGED vars /\ BufTypes' /\ Placed' /\ RingsThere'
  <2>1. at[c] # NoWhere
    BY <1>10, UmemOfSocket, Places DEF KernelReceive, Ring
  <2>2. /\ UNCHANGED vars /\ at' = [at EXCEPT ![c] = <<s, "rx">>]
        /\ phase[s] = "live" /\ <<s, "rx">> \in (Umem \cup Socket) \X Ring
    BY <1>10 DEF KernelReceive, Ring
  <2>3. n \in 0 .. SliceLen
    BY <1>10, SliceInChunk DEF KernelReceive, SliceLen
  <2>4. Base(buf[c].addr) = Start(c)
    BY <1>2, <2>1, SliceInChunk, BaseOfChunk
  <2>5. buf' = [buf EXCEPT ![c] = [addr |-> Start(c) + Reserved, len |-> n, cap |-> SliceLen]]
    <3>1. [buf EXCEPT ![c].addr = Start(c) + Reserved, ![c].len = n]
            = [buf EXCEPT ![c] = [addr |-> Start(c) + Reserved, len |-> n, cap |-> SliceLen]]
      BY <2>1, NewAddrAndLen
    <3>2. buf' = [buf EXCEPT ![c].addr = Base(buf[c].addr) + Reserved, ![c].len = n]
      BY <1>10 DEF KernelReceive
    <3> QED BY <2>4, <3>1, <3>2
  <2> QED BY <2>1, <2>2, <2>3, <2>5, MovedKeeps
<1> QED BY <1>4, <1>5, <1>6, <1>7, <1>8, <1>9, <1>10, Move(c) DEF Move

\* Whatever else the program does, no ring that holds a buffer goes.
LEMMA ProgramKeepsBuffers ==
  ASSUME BufInv, Program, UNCHANGED <<at, buf>>
  PROVE  LifetimeInv' /\ BufTypes' /\ Placed' /\ RingsThere'
<1>1. LifetimeInv'
  BY ProgramKeeps DEF BufInv
<1>2. BufTypes' /\ Placed'
  BY <1>1 DEF BufInv, BufTypes, Placed, LifetimeInv
<1>3. RingsThere'
  <2> SUFFICES ASSUME NEW c \in Chunk, at[c][1] \in Umem \cup Socket
               PROVE  phase'[at[c][1]] \in {"live", "dying"}
    BY DEF RingsThere
  <2>1. at[c][1] \in Object /\ phase[at[c][1]] \in {"live", "dying"}
    BY ObjectKinds DEF BufInv, RingsThere
  <2> QED BY <2>1, ProgramDeletesNothing DEF BufInv
<1> QED BY <1>1, <1>2, <1>3

\* A ring that goes takes the buffers in it along; those of other rings, and
\* the program's, stay.
LEMMA EndRingsKeeps ==
  ASSUME BufInv, NEW o \in Object, EndRings(o)
  PROVE  LifetimeInv' /\ BufTypes' /\ Placed' /\ RingsThere'
<1> DEFINE Lost(c) == phase'[o] = "deleted" /\ at[c] # InProgram /\ at[c][1] = o
<1>1. /\ Ending(o)
      /\ at' = [c \in Chunk |-> IF Lost(c) THEN NoWhere ELSE at[c]]
      /\ buf' = [c \in Chunk |-> IF Lost(c) THEN BufAt(0, 0) ELSE buf[c]]
  BY DEF EndRings
<1>2. /\ at \in [Chunk -> {InProgram, NoWhere} \cup (Umem \cup Socket) \X Ring]
      /\ buf \in [Chunk -> [addr : Nat, len : Nat, cap : Nat]]
  BY DEF BufInv, BufTypes
<1>3. LifetimeInv'
  BY <1>1, EndingKeeps DEF BufInv
<1>4. BufTypes'
  <2>1. at' \in [Chunk -> {InProgram, NoWhere} \cup (Umem \cup Socket) \X Ring]
    <3> HIDE DEF Lost
    <3> QED BY <1>1, <1>2
  <2>2. BufAt(0, 0) \in [addr : Nat, len : Nat, cap : Nat]
    BY SliceInChunk DEF BufAt
  <2>3. buf' \in [Chunk -> [addr : Nat, len : Nat, cap : Nat]]
    <3> HIDE DEF Lost
    <3> QED BY <1>1, <1>2, <2>2
  <2> QED BY <1>3, <2>1, <2>3 DEF BufTypes, LifetimeInv
<1>5. Placed'
  <2> SUFFICES ASSUME NEW c \in Chunk, at'[c] # NoWhere
               PROVE  /\ buf'[c].addr = Start(c) + Reserved
                      /\ buf'[c].cap = SliceLen /\ buf'[c].len <= SliceLen
    BY DEF Placed
  <2>1. ~Lost(c)
    BY <1>1
  <2>2. at'[c] = at[c] /\ buf'[c] = buf[c]
    BY <1>1, <2>1
  <2> QED BY <2>2 DEF BufInv, Placed
<1>6. RingsThere'
  <2> SUFFICES ASSUME NEW c \in Chunk, at'[c][1] \in Umem \cup Socket
               PROVE  phase'[at'[c][1]] \in {"live", "dying"}
    BY DEF RingsThere
  <2>1. ~Lost(c) /\ at'[c] = at[c]
    BY <1>1, Places, ObjectKinds
  <2>2. at[c] # InProgram /\ at[c][1] \in Object /\ phase[at[c][1]] \in {"live", "dying"}
    BY <2>1, Places, ObjectKinds DEF BufInv, RingsThere
  <2> QED BY <1>1, <2>1, <2>2, EndingDeletesOne DEF BufInv
<1> QED BY <1>3, <1>4, <1>5, <1>6

-----------------------------------------------------------------------------
(* The invariant.                                                          *)

LEMMA BuffersInit == BufInit => BufInv
<1> SUFFICES ASSUME BufInit PROVE BufInv
  OBVIOUS
<1>1. LifetimeInv
  BY LifetimeInit DEF BufInit
<1>2. BufAt(0, 0) \in [addr : Nat, len : Nat, cap : Nat]
  BY SliceInChunk DEF BufAt
<1>3. BufTypes
  BY <1>1, <1>2 DEF BufInit, BufTypes, LifetimeInv
<1>4. Placed /\ RingsThere
  BY Places, ObjectKinds DEF BufInit, Placed, RingsThere
<1> QED BY <1>1, <1>3, <1>4 DEF BufInv

LEMMA BufStep == BufInv /\ [BufNext]_bufVars => BufInv'
<1> SUFFICES ASSUME BufInv, [BufNext]_bufVars PROVE BufInv'
  OBVIOUS
<1>1. CASE MapBufs
  BY <1>1, MapBufsKeeps, NewAreaKeeps DEF BufInv, MapBufs
<1>2. CASE Program /\ UNCHANGED <<at, buf>>
  BY <1>2, ProgramKeepsBuffers DEF BufInv
<1>3. ASSUME NEW o \in Object, EndRings(o) PROVE BufInv'
  BY <1>3, EndRingsKeeps DEF BufInv
<1>4. ASSUME NEW c \in Chunk, Move(c) PROVE BufInv'
  <2>1. [Next]_vars
    BY <1>4, MoveKeeps
  <2> QED BY <1>4, <2>1, MoveKeeps, LifetimeStep DEF BufInv
<1>5. CASE UNCHANGED bufVars
  <2>1. [Next]_vars
    BY <1>5 DEF bufVars
  <2>2. LifetimeInv'
    BY <2>1, LifetimeStep DEF BufInv
  <2> QED BY <1>5, <2>2
          DEF bufVars, vars, BufInv, BufTypes, Placed, RingsThere, LifetimeInv
<1> QED BY <1>1, <1>2, <1>3, <1>4, <1>5 DEF BufNext

\* Whatever ways buffers go, each keeps the address of its own chunk, and is
\* in no ring that is gone.
THEOREM BuffersInvariant == BufSpec => []BufInv
BY BuffersInit, BufStep, PTL DEF BufSpec

-----------------------------------------------------------------------------
(* What the invariant is for.                                              *)

\* The bytes a buffer stands for are of its chunk.
LEMMA BytesInChunk ==
  ASSUME BufInv, NEW c \in Chunk, at[c] # NoWhere
  PROVE  Bytes(c) \subseteq Start(c) .. Start(c) + BufLen - 1
<1>1. buf[c].addr = Start(c) + Reserved /\ buf[c].cap = SliceLen
  BY DEF BufInv, Placed
<1>2. Start(c) \in Nat /\ BufLen \in Nat /\ Reserved \in Nat
  BY StartType, BuffersAssumption
<1>3. CASE at[c] = InProgram
  <2>1. Bytes(c) = Start(c) + Reserved .. Start(c) + Reserved + SliceLen - 1
    BY <1>1, <1>3 DEF Bytes
  <2> QED BY <1>2, <2>1, SliceInChunk
<1>4. CASE at[c] # InProgram
  <2>1. Base(buf[c].addr) = Start(c)
    BY <1>1, BaseOfChunk, SliceInChunk
  <2> QED BY <1>4, <2>1 DEF Bytes
<1> QED BY <1>3, <1>4

LEMMA InvMemoryNotShared == BufInv => MemoryNotShared
<1> SUFFICES ASSUME BufInv PROVE MemoryNotShared
  OBVIOUS
<1> DEFINE used == {c \in Chunk : at[c] # NoWhere}
<1>1. ASSUME NEW c \in used PROVE Bytes(c) \subseteq 0 .. BufNum * BufLen - 1
  <2>1. Bytes(c) \subseteq Start(c) .. Start(c) + BufLen - 1
    BY BytesInChunk
  <2> QED BY <2>1, StartType, BuffersAssumption
<1>2. ASSUME NEW c \in used, NEW d \in used, c # d PROVE Bytes(c) \cap Bytes(d) = {}
  <2>1. /\ Bytes(c) \subseteq Start(c) .. Start(c) + BufLen - 1
        /\ Bytes(d) \subseteq Start(d) .. Start(d) + BufLen - 1
    BY BytesInChunk
  <2>2. Start(c) + BufLen <= Start(d) \/ Start(d) + BufLen <= Start(c)
    <3>1. c < d \/ d < c
      BY <1>2, StartType
    <3> QED BY <3>1, ChunksApart
  <2>3. Start(c) \in Nat /\ Start(d) \in Nat /\ BufLen \in Nat
    BY StartType, BuffersAssumption
  <2> QED BY <2>1, <2>2, <2>3
<1> QED BY <1>1, <1>2 DEF MemoryNotShared

LEMMA InvDescriptorsValid == BufInv => DescriptorsValid
<1> SUFFICES ASSUME BufInv, NEW c \in Chunk, at[c][2] = "tx"
             PROVE  (buf[c].addr % BufLen) + buf[c].len <= BufLen
  BY DEF DescriptorsValid
<1>1. at[c] # NoWhere
  BY Places
<1>2. PICK len \in 0 .. SliceLen :
        buf[c] = [addr |-> Start(c) + Reserved, len |-> len, cap |-> SliceLen]
  BY <1>1, Buffer
<1>3. (Start(c) + Reserved) % BufLen = Reserved
  BY BaseOfChunk, SliceInChunk
<1> QED BY <1>2, <1>3, SliceInChunk

\* A ring that holds a buffer is of an object that holds, through its parents,
\* the area.
LEMMA InvKernelMemoryMapped == BufInv => KernelMemoryMapped
<1> SUFFICES ASSUME BufInv, NEW c \in Chunk, at[c][1] \in Umem \cup Socket
             PROVE  phase[Area] = "live"
  BY DEF KernelMemoryMapped
<1> DEFINE o == at[c][1]
<1>1. phase[o] \in {"live", "dying"} /\ o \in Object \ {Area}
  BY ObjectKinds DEF BufInv, RingsThere
<1>2. phase[parent[o]] = "live"
  BY <1>1, InvParentsOutlive DEF BufInv, ParentsOutlive
<1>3. CASE o \in Umem
  BY <1>1, <1>2, <1>3 DEF BufInv, LifetimeInv, ParentKinds
<1>4. CASE o \in Socket
  <2>1. parent[o] \in Umem /\ parent[o] \in Object \ {Area}
    BY <1>1, <1>4, ObjectKinds DEF BufInv, LifetimeInv, ParentKinds
  <2>2. phase[parent[parent[o]]] = "live"
    BY <1>2, <2>1, InvParentsOutlive DEF BufInv, ParentsOutlive
  <2> QED BY <1>2, <2>1, <2>2 DEF BufInv, LifetimeInv, ParentKinds
<1> QED BY <1>3, <1>4

\* No two buffers stand for the same byte, and none for one outside the area.
THEOREM BuffersDisjoint == BufSpec => []MemoryNotShared
BY BuffersInvariant, InvMemoryNotShared, PTL

\* What try_send gives the kernel lies in one chunk.
THEOREM SentDescriptorsValid == BufSpec => []DescriptorsValid
BY BuffersInvariant, InvDescriptorsValid, PTL

\* munmap comes when no ring holds a buffer any more.
THEOREM MappedWhileInRings == BufSpec => []KernelMemoryMapped
BY BuffersInvariant, InvKernelMemoryMapped, PTL

\* Every buffer has an address, a length and a slice, and is in a ring only
\* while the object the ring belongs to still has it.
THEOREM BuffersTypeCorrect == BufSpec => []BufTypeOK
<1>1. BufInv => BufTypeOK
  BY DEF BufInv, BufTypes, BufTypeOK, RingsThere
<1> QED BY <1>1, BuffersInvariant, PTL
=============================================================================
