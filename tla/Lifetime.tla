------------------------------ MODULE Lifetime ------------------------------
(***************************************************************************)
(* Who keeps whom alive: the memory area, the Umems registered on it, the  *)
(* Sockets bound to a Umem, and the four kinds of handles programs work    *)
(* with: UmemCompletionQueue and UmemFillQueue, SocketRx and SocketTx.     *)
(*                                                                         *)
(* Area, Umem and Socket are shared by reference count (Arc); each holds   *)
(* an Arc of what it was made from, and each handle one of its Umem or     *)
(* Socket.  When the last Arc of an object is dropped its Drop runs        *)
(* (munmap, xsk_umem__delete, xsk_socket__delete) and only then its        *)
(* fields, among them its own Arc.  Handles are Send: several threads      *)
(* create and drop, so others run between these steps.                     *)
(*                                                                         *)
(* A handle also owns the ring struct (a Box) whose address the C function *)
(* was given.                                                              *)
(***************************************************************************)
EXTENDS Naturals, FiniteSets

CONSTANTS
  Umem, Socket, \* those a program may make
  Area,         \* its memory area
  NoObject,     \* not an object
  MaxArcs,      \* bound: MaxArcs[o] Arcs of o the program holds at a time
  RingSizes,    \* the sizes a program may ask for
  Width         \* of a ring size: 32 bits

Object == {Area} \cup Umem \cup Socket

ASSUME LifetimeAssumption ==
  /\ IsFiniteSet(Umem) /\ IsFiniteSet(Socket)
  /\ Area \notin Umem \cup Socket /\ Umem \cap Socket = {}
  /\ NoObject \notin Object /\ MaxArcs \in [Object -> Nat \ {0}]
  /\ Width \in Nat \ {0} /\ RingSizes \subseteq 0 .. 2^Width - 1

VARIABLES
  phase,   \* none, live, dying (no Arc left), deleted (its Drop ran), gone
  parent,  \* what an object was made from, and holds an Arc of
  refs,    \* strong count
  arcs,    \* the Arcs of each object the program itself holds
  handles, \* the handles the program holds: <<object, ring>>
  boxes,   \* the handles whose ring struct is still allocated
  given,   \* those whose ring struct the C library has the address of
  sizes    \* the sizes of the rings of each object

vars == <<phase, parent, refs, arcs, handles, boxes, given, sizes>>

Ring == {"cq", "fq", "rx", "tx"}

-----------------------------------------------------------------------------
(* Arcs.                                                                   *)

\* Drop an Arc of o: the last one begins its end.
Release(o) ==
  /\ refs' = [refs EXCEPT ![o] = @ - 1]
  /\ phase' = IF refs[o] = 1 THEN [phase EXCEPT ![o] = "dying"] ELSE phase

\* The program clones or drops an Arc.
CloneArc(o) ==
  /\ arcs[o] \in 1 .. MaxArcs[o] - 1
  /\ arcs' = [arcs EXCEPT ![o] = @ + 1]
  /\ refs' = [refs EXCEPT ![o] = @ + 1]
  /\ UNCHANGED <<phase, parent, handles, boxes, given, sizes>>

DropArc(o) ==
  /\ arcs[o] > 0
  /\ arcs' = [arcs EXCEPT ![o] = @ - 1]
  /\ Release(o)
  /\ UNCHANGED <<parent, handles, boxes, given, sizes>>

-----------------------------------------------------------------------------
(* Creation.                                                               *)

\* Bit i of v.
Bit(v, i) == (v \div 2^i) % 2

\* v & w is not zero.
Meets(v, w) == \E i \in 0 .. Width - 1 : Bit(v, i) = 1 /\ Bit(w, i) = 1

\* Mutated: no test for 0, whose predecessor is all ones.
IsPowOfTwo_Zero(v) == ~Meets(v, (v + 2^Width - 1) % 2^Width)

\* is_pow_of_two.
IsPowOfTwo(v) == v # 0 /\ ~Meets(v, v - 1)

\* MmapArea::new; an mmap that fails changes nothing.
NewArea ==
  /\ phase[Area] = "none"
  /\ phase' = [phase EXCEPT ![Area] = "live"]
  /\ refs' = [refs EXCEPT ![Area] = 1]
  /\ arcs' = [arcs EXCEPT ![Area] = 1]
  /\ UNCHANGED <<parent, handles, boxes, given, sizes>>

\* Mutated: the handles do not hold an Arc of their own.
StrongCount_ArcOnly(rings) == 1

\* Mutated: a clone of the Arc is left over.
StrongCount_Cycle(rings) == 2 + Cardinality(rings)

\* The Arc that is returned, and one in each handle.
StrongCount(rings) == 1 + Cardinality(rings)

\* Mutated: the object does not keep the Arc it was given.
Kept_Not(p) == [refs EXCEPT ![p] = @ - 1]

\* The Arc of p passed in becomes a field of the new object.
Kept(p) == refs

\* Object o with its rings and their handles, from an Arc of p.
Created(o, p, ringSize) ==
  LET new == {<<o, r>> : r \in DOMAIN ringSize}
  IN  /\ phase' = [phase EXCEPT ![o] = "live"]
      /\ parent' = [parent EXCEPT ![o] = p]
      /\ refs' = [Kept(p) EXCEPT ![o] = StrongCount(DOMAIN ringSize)]
      /\ arcs' = [arcs EXCEPT ![p] = @ - 1, ![o] = 1]
      /\ handles' = handles \cup new
      /\ boxes' = boxes \cup new
      /\ given' = given \cup new
      /\ sizes' = [sizes EXCEPT ![o] = ringSize]

\* A ring size that is no power of two, or a C function that failed: the Arc
\* passed in and the ring structs are dropped on return.
NotCreated(p) ==
  /\ arcs' = [arcs EXCEPT ![p] = @ - 1]
  /\ Release(p)
  /\ UNCHANGED <<parent, handles, boxes, given, sizes>>

\* created: the C function returned 0.
Make(o, p, ringSize, created) ==
  /\ phase[o] = "none" /\ arcs[p] > 0
  /\ IF created /\ \A r \in DOMAIN ringSize : IsPowOfTwo(ringSize[r])
     THEN Created(o, p, ringSize)
     ELSE NotCreated(p)

\* Umem::new, for xsk_umem__create.
NewUmem(u, cqSize, fqSize, created) ==
  Make(u, Area, [r \in {"cq", "fq"} |-> IF r = "cq" THEN cqSize ELSE fqSize], created)

\* Socket::new, new_rx and new_tx, for xsk_socket__create.
NewSocket(s, u, rxSize, txSize, created) ==
  Make(s, u, [r \in {"rx", "tx"} |-> IF r = "rx" THEN rxSize ELSE txSize], created)

NewRx(s, u, rxSize, created) == Make(s, u, [r \in {"rx"} |-> rxSize], created)
NewTx(s, u, txSize, created) == Make(s, u, [r \in {"tx"} |-> txSize], created)

-----------------------------------------------------------------------------
(* The end.                                                                *)

\* A handle's Arc is its first field and dropped before its Box; the thread
\* that drops the last Arc runs the Drop of the object in between.
DropHandle(h) ==
  /\ h \in handles
  /\ handles' = handles \ {h}
  /\ Release(h[1])
  /\ boxes' = IF refs[h[1]] = 1 THEN boxes ELSE boxes \ {h}
  /\ UNCHANGED <<parent, arcs, given, sizes>>

\* The Drop of o, after which the C library has no use for its rings.
RunDrop(o) ==
  /\ phase[o] = "dying"
  /\ phase' = [phase EXCEPT ![o] = "deleted"]
  /\ boxes' = {h \in boxes : h[1] # o}
  /\ given' = {h \in given : h[1] # o}
  /\ UNCHANGED <<parent, refs, arcs, handles, sizes>>

\* Drop for Socket: xsk_socket__delete.
DeleteSocket(s) == s \in Socket /\ RunDrop(s)

\* Drop for Umem: xsk_umem__delete.
DeleteUmem(u) == u \in Umem /\ RunDrop(u)

\* Drop for MmapArea: munmap.
Unmap == RunDrop(Area)

\* The fields go: the Arc of the parent.
DropFields(o) ==
  /\ phase[o] = "deleted"
  /\ IF o = Area
     THEN phase' = [phase EXCEPT ![o] = "gone"] /\ UNCHANGED refs
     ELSE LET p == parent[o]
          IN  /\ refs' = [refs EXCEPT ![p] = @ - 1]
              /\ phase' = [x \in Object |->
                   CASE x = o -> "gone"
                     [] x = p /\ refs[p] = 1 -> "dying"
                     [] OTHER -> phase[x]]
  /\ UNCHANGED <<parent, arcs, handles, boxes, given, sizes>>

-----------------------------------------------------------------------------
Init ==
  /\ phase = [o \in Object |-> "none"]
  /\ parent = [o \in Object |-> NoObject]
  /\ refs = [o \in Object |-> 0] /\ arcs = [o \in Object |-> 0]
  /\ handles = {} /\ boxes = {} /\ given = {}
  /\ sizes = [o \in Object |-> <<>>]

Program ==
  \/ \E u \in Umem, x, y \in RingSizes, created \in BOOLEAN :
       \/ NewUmem(u, x, y, created)
       \/ \E s \in Socket :
            \/ NewSocket(s, u, x, y, created)
            \/ NewRx(s, u, x, created)
            \/ NewTx(s, u, x, created)
  \/ \E o \in Object : CloneArc(o) \/ DropArc(o)
  \/ \E h \in handles : DropHandle(h)

Ending(o) == DeleteSocket(o) \/ DeleteUmem(o) \/ (o = Area /\ Unmap) \/ DropFields(o)

Next == NewArea \/ Program \/ \E o \in Object : Ending(o)

Spec == Init /\ [][Next]_vars

\* A thread that began to drop an object finishes.
FairSpec == Spec /\ \A o \in Object : WF_vars(Ending(o))

-----------------------------------------------------------------------------
(* Properties.                                                             *)

\* No strong count, and no number of Arcs the program holds, goes below zero.
TypeOK ==
  /\ phase \in [Object -> {"none", "live", "dying", "deleted", "gone"}]
  /\ parent \in [Object -> Object \cup {NoObject}]
  /\ refs \in [Object -> Nat] /\ arcs \in [Object -> Nat]
  /\ \A o \in Object : arcs[o] <= MaxArcs[o]
  /\ \A S \in {handles, boxes, given} : S \subseteq (Umem \cup Socket) \X Ring
  /\ DOMAIN sizes = Object /\ \A o \in Object : DOMAIN sizes[o] \subseteq Ring

\* Objects that still hold the Arc of their parent.
Children(o) == {c \in Object : parent[c] = o /\ phase[c] \in {"live", "dying", "deleted"}}
HandlesOf(o) == {h \in handles : h[1] = o}

\* The strong count of an object is the number of those who can reach it, and
\* it is alive exactly as long as there is one, through every order of
\* creations, failed creations and drops.
CountsHolders ==
  \A o \in Object :
    /\ refs[o] = arcs[o] + Cardinality(HandlesOf(o)) + Cardinality(Children(o))
    /\ phase[o] = "live" <=> refs[o] > 0

\* A umem is not deleted before its sockets, nor the area unmapped before the
\* umems registered on it: xsk_umem__delete would refuse, and the NIC would
\* write to unmapped memory.
ParentsOutlive ==
  \A o \in Object \ {Area} :
    phase[o] \in {"live", "dying"} => phase[parent[o]] = "live"

\* Whoever holds a handle can call it: try_recv and service go through the
\* socket and the umem to the area's pointer.
HandlesUsable ==
  \A h \in handles :
    /\ phase[h[1]] = "live" /\ phase[parent[h[1]]] = "live" /\ phase[Area] = "live"

\* The kernel masks indices with size - 1: every ring it shares with the
\* library, whichever constructor made it, has a power of two of entries.
MasksFit ==
  \A o \in Object : \A r \in DOMAIN sizes[o] :
    \E k \in 0 .. Width - 1 : sizes[o][r] = 2^k

LetGo == handles = {} /\ \A o \in Object : arcs[o] = 0

\* A program that lets go of everything it holds leaves nothing behind: no
\* socket, no umem, no mapping.
AllReleased ==
  LetGo ~> (~LetGo \/ \A o \in Object : phase[o] \in {"none", "gone"})

\* The ring structs whose addresses xsk_socket__create was given are there
\* until the socket is deleted through them: "Cleanup is in the parent Socket".
RingsUntilDeleted == \A h \in given : h[1] \in Socket => h \in boxes
=============================================================================
