------------------------------ MODULE Buffers -------------------------------
(***************************************************************************)
(* The buffers of a memory area.  MmapArea::new cuts the area into chunks  *)
(* and makes a BufMmap of each: an address (an offset into the area), a    *)
(* length and a slice of memory.  What crosses a ring is not the BufMmap   *)
(* but its address, and its length on the way of packets; fill and         *)
(* try_send let the BufMmap go, try_recv and service build a new one from  *)
(* what the kernel says.  Nothing but this arithmetic keeps two slices     *)
(* from covering the same memory.                                          *)
(*                                                                         *)
(* Lifetime says which rings there are, and when they go.                  *)
(***************************************************************************)
EXTENDS Lifetime

CONSTANTS
  BufNum, BufLen, \* buf_num and buf_len of MmapArea::new
  Reserved,       \* AF_XDP_RESERVED
  Length          \* the lengths of packets, and those given to set_len

\* A shorter buf_len would make the slice length wrap around; the kernel does
\* not register such chunks (less than 2048 bytes).
ASSUME BuffersAssumption ==
  /\ BufNum \in Nat /\ Reserved \in Nat /\ BufLen \in Nat /\ Reserved < BufLen
  /\ Length \subseteq Nat

Chunk == 0 .. BufNum - 1

VARIABLES
  at,  \* where the buffer of each chunk is: a handle's ring, or InProgram
  buf  \* its address, length, and the length of its slice

bufVars == <<vars, at, buf>>

InProgram == <<Area, "bufs">>
NoWhere   == <<NoObject, "bufs">> \* not mapped yet, or left in a deleted ring

\* The first byte of a chunk, and of the one that holds an address.
Start(c) == c * BufLen
Base(addr) == addr - (addr % BufLen)

-----------------------------------------------------------------------------
\* buf_len_available.
SliceLen == BufLen - Reserved

\* The BufMmap for an address.
BufAt(addr, len) == [addr |-> addr, len |-> len, cap |-> SliceLen]

\* MmapArea::new.
MapBufs ==
  /\ NewArea
  /\ at' = [c \in Chunk |-> InProgram]
  /\ buf' = [c \in Chunk |-> BufAt(Start(c) + Reserved, 0)]

\* Mutated: as BufVec does, without a look at the capacity.
Fits_Always(c, n) == TRUE

Fits(c, n) == n <= buf[c].cap

\* BufMmap::set_len; a length that does not fit panics.
SetLen(c, n) ==
  /\ at[c] = InProgram /\ Fits(c, n)
  /\ buf' = [buf EXCEPT ![c].len = n]
  /\ UNCHANGED <<vars, at>>

\* Of a buffer that went through a fill or completion ring only the address
\* is left.
AddressOnly(c) == [buf EXCEPT ![c].len = 0]

\* fill: the address goes into the fill ring.
FillOne(c, u) ==
  /\ at[c] = InProgram /\ <<u, "fq">> \in handles
  /\ at' = [at EXCEPT ![c] = <<u, "fq">>]
  /\ buf' = AddressOnly(c)
  /\ UNCHANGED vars

\* The kernel writes a packet of n bytes behind the reserved bytes of the
\* chunk that holds the address, and hands it to a socket of the umem.
KernelReceive(c, s, n) ==
  /\ phase[s] = "live" /\ "rx" \in DOMAIN sizes[s]
  /\ at[c] = <<parent[s], "fq">> /\ n <= BufLen - Reserved
  /\ at' = [at EXCEPT ![c] = <<s, "rx">>]
  /\ buf' = [buf EXCEPT ![c].addr = Base(@) + Reserved, ![c].len = n]
  /\ UNCHANGED vars

\* try_recv: a BufMmap for the descriptor.
RecvOne(c, s) ==
  /\ at[c] = <<s, "rx">> /\ <<s, "rx">> \in handles
  /\ at' = [at EXCEPT ![c] = InProgram]
  /\ buf' = [buf EXCEPT ![c] = BufAt(@.addr, @.len)]
  /\ UNCHANGED vars

\* try_send: address and length become a descriptor.
SendOne(c, s) ==
  /\ at[c] = InProgram /\ <<s, "tx">> \in handles
  /\ at' = [at EXCEPT ![c] = <<s, "tx">>]
  /\ UNCHANGED <<vars, buf>>

\* The kernel sends the packet and returns the address to the socket's umem.
KernelSent(c, s) ==
  /\ at[c] = <<s, "tx">> /\ phase[s] = "live"
  /\ at' = [at EXCEPT ![c] = <<parent[s], "cq">>]
  /\ buf' = AddressOnly(c)
  /\ UNCHANGED vars

\* Mutated: the reserved bytes are added to an address that has them.
CompAddr_Reserved(addr) == addr + Reserved

\* "we don't add AF_XDP_RESERVED here".
CompAddr(addr) == addr

\* service: a BufMmap for the address, without a packet.
ServiceOne(c, u) ==
  /\ at[c] = <<u, "cq">> /\ <<u, "cq">> \in handles
  /\ at' = [at EXCEPT ![c] = InProgram]
  /\ buf' = [buf EXCEPT ![c] = BufAt(CompAddr(@.addr), 0)]
  /\ UNCHANGED vars

\* The rings of a deleted object are gone, and what they held with them.
EndRings(o) ==
  LET Lost(c) == phase'[o] = "deleted" /\ at[c] # InProgram /\ at[c][1] = o
  IN  /\ Ending(o)
      /\ at' = [c \in Chunk |-> IF Lost(c) THEN NoWhere ELSE at[c]]
      /\ buf' = [c \in Chunk |-> IF Lost(c) THEN BufAt(0, 0) ELSE buf[c]]

-----------------------------------------------------------------------------
BufInit ==
  /\ Init
  /\ at = [c \in Chunk |-> NoWhere]
  /\ buf = [c \in Chunk |-> BufAt(0, 0)]

Move(c) ==
  \/ \E n \in Length : SetLen(c, n)
  \/ \E u \in Umem : FillOne(c, u) \/ ServiceOne(c, u)
  \/ \E s \in Socket :
       \/ RecvOne(c, s) \/ SendOne(c, s) \/ KernelSent(c, s)
       \/ \E n \in Length : KernelReceive(c, s, n)

BufNext ==
  \/ MapBufs
  \/ Program /\ UNCHANGED <<at, buf>>
  \/ \E o \in Object : EndRings(o)
  \/ \E c \in Chunk : Move(c)

BufSpec == BufInit /\ [][BufNext]_bufVars

\* A thread that began to drop an object finishes.
FairBufSpec == BufSpec /\ \A o \in Object : WF_bufVars(EndRings(o))

-----------------------------------------------------------------------------
(* Properties.                                                             *)

\* Everything is of its kind, and a buffer is in a ring only until the Drop of
\* the object the ring belongs to has run: the kernel, which moves buffers from
\* a umem's rings to a socket's and back without a handle, finds both there,
\* in whatever order the program drops them.
BufTypeOK ==
  /\ TypeOK
  /\ at \in [Chunk -> {InProgram, NoWhere} \cup (Umem \cup Socket) \X Ring]
  /\ buf \in [Chunk -> [addr : Nat, len : Nat, cap : Nat]]
  /\ \A c \in Chunk :
       at[c][1] \in Umem \cup Socket => phase[at[c][1]] \in {"live", "dying"}

\* The memory a buffer stands for: the slice the program writes to, or the
\* chunk the kernel does.
Bytes(c) ==
  LET first == buf[c].addr
  IN  IF at[c] = InProgram THEN first .. first + buf[c].cap - 1
      ELSE Base(first) .. Base(first) + BufLen - 1

\* However buffers go round, through whichever umems and sockets of the area,
\* no two of them stand for the same byte, and none for one outside the area.
MemoryNotShared ==
  LET used == {c \in Chunk : at[c] # NoWhere}
  IN  /\ \A c \in used : Bytes(c) \subseteq 0 .. BufNum * BufLen - 1
      /\ \A c, d \in used : c # d => Bytes(c) \cap Bytes(d) = {}

\* A descriptor given to the kernel for sending lies in one chunk: one that
\* does not is dropped by the kernel and its buffer never completed.
DescriptorsValid ==
  \A c \in Chunk :
    at[c][2] = "tx" => (buf[c].addr % BufLen) + buf[c].len <= BufLen

\* The kernel writes to the buffers it was given: as long as a ring holds one,
\* the area is mapped, whoever dropped what in which order.
KernelMemoryMapped ==
  (\E c \in Chunk : at[c][1] \in Umem \cup Socket) => phase[Area] = "live"
=============================================================================
