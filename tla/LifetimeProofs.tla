--------------------------- MODULE LifetimeProofs ---------------------------
(***************************************************************************)
(* Lifetime, proved for all finite sets of umems and sockets, however many *)
(* Arcs the program may hold, all ring sizes and every width of them.      *)
(***************************************************************************)
EXTENDS Lifetime, FiniteSetTheorems, WellFoundedInduction, TLAPS

-----------------------------------------------------------------------------
(* The inductive invariant.                                                *)

\* A umem is made from an area and a socket from a umem.
ParentKinds ==
  /\ parent[Area] = NoObject
  /\ \A u \in Umem : phase[u] # "none" => parent[u] = Area
  /\ \A s \in Socket : phase[s] # "none" => parent[s] \in Umem

\* The inductive invariant: whether a count is right after a step depends on
\* what the Arcs dropped in it are of.
LifetimeInv == TypeOK /\ ParentKinds /\ CountsHolders

-----------------------------------------------------------------------------
(* Counting holders.                                                       *)

\* The area is no umem and no socket, a umem no socket, and none of them the
\* absent object.
LEMMA ObjectKinds ==
  /\ Area \in Object /\ Umem \subseteq Object /\ Socket \subseteq Object
  /\ Area \notin Umem /\ Area \notin Socket /\ Umem \cap Socket = {}
  /\ NoObject \notin Object
BY LifetimeAssumption DEF Object

\* The program may hold at least the Arc it gets.
LEMMA ArcBound == \A o \in Object : MaxArcs[o] \in Nat /\ MaxArcs[o] >= 1
BY LifetimeAssumption

\* There are finitely many objects, so finitely many children of one.
LEMMA FiniteObjects ==
  ASSUME NEW S \in SUBSET Object
  PROVE  IsFiniteSet(S) /\ Cardinality(S) \in Nat
<1>1. IsFiniteSet(Umem \cup Socket)
  BY LifetimeAssumption, FS_Union
<1>2. IsFiniteSet({Area})
  BY FS_Singleton
<1>3. IsFiniteSet(Object)
  <2>1. IsFiniteSet({Area} \cup (Umem \cup Socket))
    BY <1>1, <1>2, FS_Union
  <2>2. Object = {Area} \cup (Umem \cup Socket)
    BY DEF Object
  <2> QED BY <2>1, <2>2
<1>4. IsFiniteSet(S)
  BY <1>3, FS_Subset
<1> QED BY <1>4, FS_CardinalityType

\* An object has at most four rings, of which it gives handles.
LEMMA FiniteRings ==
  ASSUME NEW R \in SUBSET Ring
  PROVE  IsFiniteSet(R) /\ Cardinality(R) \in Nat
<1>1. IsFiniteSet({"cq"} \cup {"fq"})
  BY FS_Singleton, FS_Union
<1>2. IsFiniteSet({"rx"} \cup {"tx"})
  BY FS_Singleton, FS_Union
<1>3. IsFiniteSet(({"cq"} \cup {"fq"}) \cup ({"rx"} \cup {"tx"}))
  BY <1>1, <1>2, FS_Union
<1>4. Ring = ({"cq"} \cup {"fq"}) \cup ({"rx"} \cup {"tx"})
  BY DEF Ring
<1>5. IsFiniteSet(R)
  BY <1>3, <1>4, FS_Subset
<1> QED BY <1>5, FS_CardinalityType

LEMMA FiniteHandles ==
  ASSUME NEW H \in SUBSET ((Umem \cup Socket) \X Ring)
  PROVE  IsFiniteSet(H) /\ Cardinality(H) \in Nat
<1>1. IsFiniteSet(Umem \cup Socket)
  BY LifetimeAssumption, FS_Union
<1>2. IsFiniteSet(Ring)
  BY FiniteRings
<1>3. IsFiniteSet((Umem \cup Socket) \X Ring)
  BY <1>1, <1>2, FS_Product
<1>4. IsFiniteSet(H)
  BY <1>3, FS_Subset
<1> QED BY <1>4, FS_CardinalityType

\* The handles of a new object are as many as its rings.
LEMMA HandlesPerRing ==
  ASSUME NEW o, NEW R \in SUBSET Ring
  PROVE  Cardinality({<<o, r>> : r \in R}) = Cardinality(R)
<1> DEFINE H == {<<o, r>> : r \in R}
           f == [r \in R |-> <<o, r>>]
<1>1. IsFiniteSet(R)
  BY FiniteRings
<1>2. f \in Bijection(R, H)
  BY DEF Bijection, Injection, Surjection, IsInjective
<1>3. ExistsBijection(R, H)
  BY <1>2 DEF ExistsBijection
<1> QED BY <1>1, <1>3, FS_Bijection

-----------------------------------------------------------------------------
(* Arcs come and go.                                                       *)

\* What there is to count of an object.
LEMMA HoldersFinite ==
  ASSUME TypeOK, NEW o \in Object
  PROVE  /\ IsFiniteSet(HandlesOf(o)) /\ Cardinality(HandlesOf(o)) \in Nat
         /\ IsFiniteSet(Children(o)) /\ Cardinality(Children(o)) \in Nat
<1>1. HandlesOf(o) \in SUBSET ((Umem \cup Socket) \X Ring)
  BY DEF TypeOK, HandlesOf
<1>2. Children(o) \in SUBSET Object
  BY DEF Children
<1> QED BY <1>1, <1>2, FiniteHandles, FiniteObjects

\* An object is alive when the program holds an Arc or a handle of it, or
\* another object was made from it and is not gone.
LEMMA HeldIsLive ==
  ASSUME LifetimeInv, NEW o \in Object,
         arcs[o] > 0 \/ HandlesOf(o) # {} \/ Children(o) # {}
  PROVE  refs[o] > 0 /\ phase[o] = "live"
<1>1. arcs[o] \in Nat /\ refs[o] \in Nat
  BY DEF LifetimeInv, TypeOK
<1>2. /\ Cardinality(HandlesOf(o)) \in Nat /\ Cardinality(Children(o)) \in Nat
      /\ Cardinality(HandlesOf(o)) = 0 <=> HandlesOf(o) = {}
      /\ Cardinality(Children(o)) = 0 <=> Children(o) = {}
  BY HoldersFinite, FS_EmptySet DEF LifetimeInv
<1> QED BY <1>1, <1>2 DEF LifetimeInv, CountsHolders

\* Nobody holds an object that was not made yet, or is on its way out.
LEMMA NotLiveIsUnheld ==
  ASSUME LifetimeInv, NEW o \in Object, phase[o] # "live"
  PROVE  refs[o] = 0 /\ arcs[o] = 0 /\ HandlesOf(o) = {} /\ Children(o) = {}
<1>1. arcs[o] \in Nat /\ refs[o] \in Nat
  BY DEF LifetimeInv, TypeOK
<1> QED BY <1>1, HeldIsLive DEF LifetimeInv, CountsHolders

\* Dropping an Arc of an object takes it from live to dying at most, and
\* leaves what it holds itself in place.
LEMMA ReleaseKeeps ==
  ASSUME LifetimeInv, NEW o \in Object, refs[o] > 0, Release(o), UNCHANGED parent
  PROVE  /\ refs' \in [Object -> Nat]
         /\ phase' \in [Object -> {"none", "live", "dying", "deleted", "gone"}]
         /\ refs'[o] = refs[o] - 1
         /\ \A x \in Object \ {o} : refs'[x] = refs[x]
         /\ \A x \in Object : phase'[x] = "live" <=> refs'[x] > 0
         /\ \A x \in Object : Children(x)' = Children(x)
         /\ ParentKinds'
<1>1. /\ refs \in [Object -> Nat]
      /\ phase \in [Object -> {"none", "live", "dying", "deleted", "gone"}]
  BY DEF LifetimeInv, TypeOK
<1>2. \A x \in Object : phase[x] = "live" <=> refs[x] > 0
  BY DEF LifetimeInv, CountsHolders
<1>3. /\ refs' = [refs EXCEPT ![o] = @ - 1]
      /\ \A x \in Object \ {o} : phase'[x] = phase[x]
      /\ phase'[o] = IF refs[o] = 1 THEN "dying" ELSE phase[o]
      /\ phase' \in [Object -> {"none", "live", "dying", "deleted", "gone"}]
  BY <1>1 DEF Release
<1>4. /\ refs' \in [Object -> Nat] /\ refs'[o] = refs[o] - 1
      /\ \A x \in Object \ {o} : refs'[x] = refs[x]
  BY <1>1, <1>3
<1>5. \A x \in Object : phase'[x] = "live" <=> refs'[x] > 0
  BY <1>1, <1>2, <1>3, <1>4
<1>6. \A x \in Object : Children(x)' = Children(x)
  BY <1>2, <1>3 DEF Children
<1>7. ParentKinds'
  BY <1>2, <1>3, ObjectKinds DEF LifetimeInv, ParentKinds
<1> QED BY <1>3, <1>4, <1>5, <1>6, <1>7

-----------------------------------------------------------------------------
(* Each operation keeps the counts right.                                  *)

LEMMA CloneKeeps ==
  ASSUME LifetimeInv, NEW o \in Object, CloneArc(o) PROVE LifetimeInv'
<1>1. refs[o] > 0 /\ phase[o] = "live"
  <2>1. arcs[o] > 0
    BY DEF LifetimeInv, TypeOK, CloneArc
  <2> QED BY <2>1, HeldIsLive
<1>2. TypeOK'
  <2>1. /\ arcs \in [Object -> Nat] /\ arcs' = [arcs EXCEPT ![o] = @ + 1]
        /\ arcs[o] + 1 <= MaxArcs[o] /\ \A x \in Object : arcs[x] <= MaxArcs[x]
    BY ArcBound DEF LifetimeInv, TypeOK, CloneArc
  <2>2. arcs' \in [Object -> Nat] /\ \A x \in Object : arcs'[x] <= MaxArcs[x]
    BY <2>1
  <2>3. refs' \in [Object -> Nat]
    BY DEF LifetimeInv, TypeOK, CloneArc
  <2> QED BY <2>2, <2>3 DEF LifetimeInv, TypeOK, CloneArc
<1>3. ParentKinds'
  BY DEF LifetimeInv, ParentKinds, CloneArc
<1>4. CountsHolders'
  <2> SUFFICES ASSUME NEW x \in Object
               PROVE  /\ refs'[x] = arcs'[x] + Cardinality(HandlesOf(x)') + Cardinality(Children(x)')
                      /\ phase'[x] = "live" <=> refs'[x] > 0
    BY DEF CountsHolders
  <2>1. HandlesOf(x)' = HandlesOf(x) /\ Children(x)' = Children(x)
    BY DEF CloneArc, HandlesOf, Children
  <2>2. Cardinality(HandlesOf(x)) \in Nat /\ Cardinality(Children(x)) \in Nat
    BY HoldersFinite DEF LifetimeInv
  <2> QED BY <1>1, <2>1, <2>2 DEF LifetimeInv, TypeOK, CountsHolders, CloneArc
<1> QED BY <1>2, <1>3, <1>4 DEF LifetimeInv

LEMMA DropArcKeeps ==
  ASSUME LifetimeInv, NEW o \in Object, DropArc(o) PROVE LifetimeInv'
<1>1. refs[o] > 0
  BY HeldIsLive DEF DropArc
<1>2. Release(o) /\ UNCHANGED parent
  BY DEF DropArc
<1>3. TypeOK'
  <2>1. /\ arcs \in [Object -> Nat] /\ arcs' = [arcs EXCEPT ![o] = @ - 1]
        /\ arcs[o] > 0 /\ \A x \in Object : arcs[x] <= MaxArcs[x] /\ MaxArcs[x] \in Nat
    BY ArcBound DEF LifetimeInv, TypeOK, DropArc
  <2>2. arcs' \in [Object -> Nat] /\ \A x \in Object : arcs'[x] <= MaxArcs[x]
    BY <2>1
  <2> QED BY <1>1, <1>2, <2>2, ReleaseKeeps DEF LifetimeInv, TypeOK, DropArc
<1>4. CountsHolders'
  <2> SUFFICES ASSUME NEW x \in Object
               PROVE  refs'[x] = arcs'[x] + Cardinality(HandlesOf(x)') + Cardinality(Children(x)')
    BY <1>1, <1>2, ReleaseKeeps DEF CountsHolders
  <2>1. HandlesOf(x)' = HandlesOf(x) /\ Children(x)' = Children(x)
    BY <1>1, <1>2, ReleaseKeeps DEF DropArc, HandlesOf
  <2>2. Cardinality(HandlesOf(x)) \in Nat /\ Cardinality(Children(x)) \in Nat
    BY HoldersFinite DEF LifetimeInv
  <2>3. arcs'[x] = IF x = o THEN arcs[x] - 1 ELSE arcs[x]
    BY DEF LifetimeInv, TypeOK, DropArc
  <2>4. refs'[x] = IF x = o THEN refs[x] - 1 ELSE refs[x]
    BY <1>1, <1>2, ReleaseKeeps
  <2> QED BY <2>1, <2>2, <2>3, <2>4 DEF LifetimeInv, TypeOK, CountsHolders
<1> QED BY <1>1, <1>2, <1>3, <1>4, ReleaseKeeps DEF LifetimeInv

LEMMA NewAreaKeeps ==
  ASSUME LifetimeInv, NewArea PROVE LifetimeInv'
<1>1. refs[Area] = 0 /\ arcs[Area] = 0 /\ HandlesOf(Area) = {} /\ Children(Area) = {}
  BY NotLiveIsUnheld, ObjectKinds DEF NewArea
<1>2. TypeOK'
  <2>1. /\ arcs \in [Object -> Nat] /\ arcs' = [arcs EXCEPT ![Area] = 1]
        /\ \A x \in Object : arcs[x] <= MaxArcs[x]
    BY DEF LifetimeInv, TypeOK, NewArea
  <2>2. arcs' \in [Object -> Nat] /\ \A x \in Object : arcs'[x] <= MaxArcs[x]
    BY <2>1, ArcBound
  <2>3. refs' \in [Object -> Nat] /\ phase' \in [Object -> {"none", "live", "dying", "deleted", "gone"}]
    BY DEF LifetimeInv, TypeOK, NewArea
  <2> QED BY <2>2, <2>3 DEF LifetimeInv, TypeOK, NewArea
<1>3. ParentKinds'
  BY ObjectKinds DEF LifetimeInv, TypeOK, ParentKinds, NewArea
<1>4. CountsHolders'
  <2> SUFFICES ASSUME NEW x \in Object
               PROVE  /\ refs'[x] = arcs'[x] + Cardinality(HandlesOf(x)') + Cardinality(Children(x)')
                      /\ phase'[x] = "live" <=> refs'[x] > 0
    BY DEF CountsHolders
  <2>1. HandlesOf(x)' = HandlesOf(x)
    BY DEF NewArea, HandlesOf
  <2>2. Children(x)' = Children(x)
    <3>1. parent[Area] = NoObject
      BY DEF LifetimeInv, ParentKinds
    <3> QED BY <3>1, ObjectKinds DEF LifetimeInv, TypeOK, NewArea, Children
  <2>3. Cardinality(HandlesOf(x)) \in Nat /\ Cardinality(Children(x)) \in Nat
    BY HoldersFinite DEF LifetimeInv
  <2>4. CASE x = Area
    <3>1. Cardinality(HandlesOf(x)') = 0 /\ Cardinality(Children(x)') = 0
      BY <1>1, <2>1, <2>2, <2>4, FS_EmptySet
    <3>2. refs'[x] = 1 /\ arcs'[x] = 1 /\ phase'[x] = "live"
      BY <2>4, ObjectKinds DEF LifetimeInv, TypeOK, NewArea
    <3> QED BY <3>1, <3>2
  <2>5. CASE x # Area
    BY <2>1, <2>2, <2>5, ObjectKinds DEF LifetimeInv, TypeOK, CountsHolders, NewArea
  <2> QED BY <2>4, <2>5
<1> QED BY <1>2, <1>3, <1>4 DEF LifetimeInv

LEMMA NotCreatedKeeps ==
  ASSUME LifetimeInv, NEW p \in Object, arcs[p] > 0, NotCreated(p) PROVE LifetimeInv'
<1>1. DropArc(p)
  BY DEF NotCreated, DropArc
<1> QED BY <1>1, DropArcKeeps

\* A new object is counted by its Arc and its handles, and its parent by it
\* instead of the Arc it was made from.
LEMMA CreatedKeeps ==
  ASSUME LifetimeInv, NEW o \in Umem \cup Socket, NEW p \in Object,
         o \in Umem => p = Area, o \in Socket => p \in Umem,
         NEW ringSize, DOMAIN ringSize \subseteq Ring,
         phase[o] = "none", arcs[p] > 0, Created(o, p, ringSize)
  PROVE  LifetimeInv'
<1> DEFINE R == DOMAIN ringSize
           new == {<<o, r>> : r \in R}
<1>1. o \in Object /\ p # o
  BY ObjectKinds
<1>2. refs[o] = 0 /\ arcs[o] = 0 /\ HandlesOf(o) = {} /\ Children(o) = {}
  BY <1>1, NotLiveIsUnheld
<1>3. Cardinality(R) \in Nat /\ Cardinality(new) = Cardinality(R)
  BY FiniteRings, HandlesPerRing
<1>4. new \subseteq (Umem \cup Socket) \X Ring
  OBVIOUS
<1>5. /\ phase' = [phase EXCEPT ![o] = "live"]
      /\ parent' = [parent EXCEPT ![o] = p]
      /\ refs' = [refs EXCEPT ![o] = 1 + Cardinality(R)]
      /\ arcs' = [arcs EXCEPT ![p] = @ - 1, ![o] = 1]
      /\ handles' = handles \cup new
      /\ boxes' = boxes \cup new
      /\ given' = given \cup new
      /\ sizes' = [sizes EXCEPT ![o] = ringSize]
  BY DEF Created, Kept, StrongCount
<1>6. /\ phase \in [Object -> {"none", "live", "dying", "deleted", "gone"}]
      /\ parent \in [Object -> Object \cup {NoObject}]
      /\ refs \in [Object -> Nat] /\ arcs \in [Object -> Nat]
      /\ \A x \in Object : arcs[x] <= MaxArcs[x]
  BY DEF LifetimeInv, TypeOK
<1>7. TypeOK'
  <2>1. arcs' \in [Object -> Nat] /\ \A x \in Object : arcs'[x] <= MaxArcs[x]
    BY <1>1, <1>5, <1>6, ArcBound
  <2>2. refs' \in [Object -> Nat]
    BY <1>1, <1>3, <1>5, <1>6
  <2>3. /\ phase' \in [Object -> {"none", "live", "dying", "deleted", "gone"}]
        /\ parent' \in [Object -> Object \cup {NoObject}]
    BY <1>1, <1>5, <1>6
  <2>4. \A S \in {handles', boxes', given'} : S \subseteq (Umem \cup Socket) \X Ring
    BY <1>4, <1>5 DEF LifetimeInv, TypeOK
  <2>5. DOMAIN sizes' = Object /\ \A x \in Object : DOMAIN (sizes'[x]) \subseteq Ring
    BY <1>1, <1>5 DEF LifetimeInv, TypeOK
  <2> QED BY <2>1, <2>2, <2>3, <2>4, <2>5 DEF TypeOK
<1>8. ParentKinds'
  BY <1>1, <1>5, <1>6, ObjectKinds DEF LifetimeInv, ParentKinds
<1>9. CountsHolders'
  <2> SUFFICES ASSUME NEW x \in Object
               PROVE  /\ refs'[x] = arcs'[x] + Cardinality(HandlesOf(x)') + Cardinality(Children(x)')
                      /\ phase'[x] = "live" <=> refs'[x] > 0
    BY DEF CountsHolders
  <2>1. Cardinality(HandlesOf(x)) \in Nat /\ Cardinality(Children(x)) \in Nat
    BY HoldersFinite DEF LifetimeInv
  <2>2. /\ refs[x] = arcs[x] + Cardinality(HandlesOf(x)) + Cardinality(Children(x))
        /\ phase[x] = "live" <=> refs[x] > 0
    BY DEF LifetimeInv, CountsHolders
  <2>3. HandlesOf(x)' = IF x = o THEN new ELSE HandlesOf(x)
    <3>1. CASE x = o
      BY <1>2, <1>5, <3>1 DEF HandlesOf
    <3>2. CASE x # o
      BY <1>5, <3>2 DEF HandlesOf
    <3> QED BY <3>1, <3>2
  <2>4. o \notin Children(x)
    BY DEF Children
  <2>5. Children(x)' = IF x = p THEN Children(x) \cup {o} ELSE Children(x)
    BY <1>1, <1>5, <1>6 DEF Children
  <2>6. CASE x = o
    <3>1. Cardinality(HandlesOf(x)') = Cardinality(R) /\ Cardinality(Children(x)') = 0
      BY <1>1, <1>2, <1>3, <2>3, <2>5, <2>6, FS_EmptySet
    <3>2. refs'[x] = 1 + Cardinality(R) /\ arcs'[x] = 1 /\ phase'[x] = "live"
      BY <1>1, <1>5, <1>6, <2>6
    <3> QED BY <1>3, <3>1, <3>2
  <2>7. CASE x = p
    <3>1. Cardinality(Children(x)') = Cardinality(Children(x)) + 1
      BY <2>4, <2>5, <2>7, HoldersFinite, FS_AddElement DEF LifetimeInv
    <3> QED BY <1>1, <1>5, <1>6, <2>1, <2>2, <2>3, <2>7, <3>1
  <2>8. CASE x # o /\ x # p
    BY <1>1, <1>5, <1>6, <2>1, <2>2, <2>3, <2>5, <2>8
  <2> QED BY <2>6, <2>7, <2>8
<1> QED BY <1>7, <1>8, <1>9 DEF LifetimeInv

LEMMA MakeKeeps ==
  ASSUME LifetimeInv, NEW o \in Umem \cup Socket, NEW p \in Object,
         o \in Umem => p = Area, o \in Socket => p \in Umem,
         NEW ringSize, DOMAIN ringSize \subseteq Ring, NEW created,
         Make(o, p, ringSize, created)
  PROVE  LifetimeInv'
BY CreatedKeeps, NotCreatedKeeps DEF Make

\* A handle goes, and an Arc with it.
LEMMA DropHandleKeeps ==
  ASSUME LifetimeInv, NEW h \in handles, DropHandle(h) PROVE LifetimeInv'
<1> DEFINE o == h[1]
<1>1. o \in Object /\ h \in HandlesOf(o)
  BY ObjectKinds DEF LifetimeInv, TypeOK, HandlesOf
<1>2. refs[o] > 0
  BY <1>1, HeldIsLive
<1>3. Release(o) /\ UNCHANGED parent
  BY DEF DropHandle
<1>4. TypeOK'
  <2>1. \A S \in {handles', boxes', given'} : S \subseteq (Umem \cup Socket) \X Ring
    BY DEF LifetimeInv, TypeOK, DropHandle
  <2>2. /\ refs' \in [Object -> Nat]
        /\ phase' \in [Object -> {"none", "live", "dying", "deleted", "gone"}]
    BY <1>1, <1>2, <1>3, ReleaseKeeps
  <2> QED BY <2>1, <2>2 DEF LifetimeInv, TypeOK, DropHandle
<1>5. CountsHolders'
  <2> SUFFICES ASSUME NEW x \in Object
               PROVE  refs'[x] = arcs'[x] + Cardinality(HandlesOf(x)') + Cardinality(Children(x)')
    BY <1>1, <1>2, <1>3, ReleaseKeeps DEF CountsHolders
  <2>1. Cardinality(HandlesOf(x)) \in Nat /\ Cardinality(Children(x)) \in Nat
    BY HoldersFinite DEF LifetimeInv
  <2>2. refs[x] = arcs[x] + Cardinality(HandlesOf(x)) + Cardinality(Children(x))
    BY DEF LifetimeInv, CountsHolders
  <2>3. Children(x)' = Children(x) /\ arcs'[x] = arcs[x] /\ arcs[x] \in Nat
    BY <1>1, <1>2, <1>3, ReleaseKeeps DEF LifetimeInv, TypeOK, DropHandle
  <2>4. CASE x = o
    <3>1. HandlesOf(x)' = HandlesOf(x) \ {h}
      BY DEF DropHandle, HandlesOf
    <3>2. Cardinality(HandlesOf(x)') = Cardinality(HandlesOf(x)) - 1
      BY <1>1, <2>4, <3>1, HoldersFinite, FS_RemoveElement DEF LifetimeInv
    <3>3. refs'[x] = refs[x] - 1
      BY <1>1, <1>2, <1>3, <2>4, ReleaseKeeps
    <3> QED BY <2>1, <2>2, <2>3, <3>2, <3>3
  <2>5. CASE x # o
    <3>1. HandlesOf(x)' = HandlesOf(x)
      BY <2>5 DEF DropHandle, HandlesOf
    <3>2. refs'[x] = refs[x]
      BY <1>1, <1>2, <1>3, <2>5, ReleaseKeeps
    <3> QED BY <2>1, <2>2, <2>3, <3>1, <3>2
  <2> QED BY <2>4, <2>5
<1> QED BY <1>1, <1>2, <1>3, <1>4, <1>5, ReleaseKeeps DEF LifetimeInv

\* An object whose Drop ran still holds the Arc of its parent.
LEMMA RunDropKeeps ==
  ASSUME LifetimeInv, NEW o \in Object, RunDrop(o) PROVE LifetimeInv'
<1>1. /\ phase \in [Object -> {"none", "live", "dying", "deleted", "gone"}]
      /\ phase[o] = "dying" /\ phase' = [phase EXCEPT ![o] = "deleted"]
  BY DEF LifetimeInv, TypeOK, RunDrop
<1>2. TypeOK'
  <2>1. phase' \in [Object -> {"none", "live", "dying", "deleted", "gone"}]
    BY <1>1
  <2>2. \A S \in {handles', boxes', given'} : S \subseteq (Umem \cup Socket) \X Ring
    BY DEF LifetimeInv, TypeOK, RunDrop
  <2> QED BY <2>1, <2>2 DEF LifetimeInv, TypeOK, RunDrop
<1>3. ParentKinds'
  BY <1>1, ObjectKinds DEF LifetimeInv, ParentKinds, RunDrop
<1>4. CountsHolders'
  <2> SUFFICES ASSUME NEW x \in Object
               PROVE  /\ refs'[x] = arcs'[x] + Cardinality(HandlesOf(x)') + Cardinality(Children(x)')
                      /\ phase'[x] = "live" <=> refs'[x] > 0
    BY DEF CountsHolders
  <2>1. HandlesOf(x)' = HandlesOf(x) /\ Children(x)' = Children(x)
    BY <1>1 DEF RunDrop, HandlesOf, Children
  <2>2. phase'[x] = "live" <=> phase[x] = "live"
    BY <1>1
  <2> QED BY <2>1, <2>2 DEF LifetimeInv, CountsHolders, RunDrop
<1> QED BY <1>2, <1>3, <1>4 DEF LifetimeInv

\* The fields of an object are dropped after its Drop: only now does its
\* parent lose a child.
LEMMA DropFieldsKeeps ==
  ASSUME LifetimeInv, NEW o \in Object, DropFields(o) PROVE LifetimeInv'
<1>1. /\ phase \in [Object -> {"none", "live", "dying", "deleted", "gone"}]
      /\ refs \in [Object -> Nat] /\ phase[o] = "deleted"
      /\ \A x \in Object : phase[x] = "live" <=> refs[x] > 0
      /\ UNCHANGED <<parent, arcs, handles, boxes, given, sizes>>
  BY DEF LifetimeInv, TypeOK, CountsHolders, DropFields
<1>2. \A x \in Object : HandlesOf(x)' = HandlesOf(x)
  BY <1>1 DEF HandlesOf
<1>3. CASE o = Area
  <2>1. phase' = [phase EXCEPT ![o] = "gone"] /\ refs' = refs
    BY <1>3 DEF DropFields
  <2>2. phase' \in [Object -> {"none", "live", "dying", "deleted", "gone"}]
    BY <1>1, <2>1
  <2>3. TypeOK'
    BY <1>1, <2>1, <2>2 DEF LifetimeInv, TypeOK
  <2>4. ParentKinds'
    BY <1>1, <2>1, ObjectKinds DEF LifetimeInv, ParentKinds
  <2>5. \A x \in Object : Children(x)' = Children(x)
    BY <1>1, <1>3, <2>1, ObjectKinds DEF LifetimeInv, ParentKinds, Children
  <2>6. CountsHolders'
    <3> SUFFICES ASSUME NEW x \in Object
                 PROVE  /\ refs'[x] = arcs'[x] + Cardinality(HandlesOf(x)') + Cardinality(Children(x)')
                        /\ phase'[x] = "live" <=> refs'[x] > 0
      BY DEF CountsHolders
    <3>1. phase'[x] = "live" <=> phase[x] = "live"
      BY <1>1, <2>1
    <3> QED BY <1>1, <1>2, <2>1, <2>5, <3>1 DEF LifetimeInv, CountsHolders
  <2> QED BY <2>3, <2>4, <2>6 DEF LifetimeInv
<1>4. CASE o # Area
  <2> DEFINE p == parent[o]
  <2>1. p \in Object /\ p # o
    BY <1>1, <1>4, ObjectKinds DEF Object, LifetimeInv, ParentKinds
  <2>2. o \in Children(p)
    BY <1>1 DEF Children
  <2>3. refs[p] > 0 /\ phase[p] = "live"
    BY <2>1, <2>2, HeldIsLive
  <2>4. /\ refs' = [refs EXCEPT ![p] = @ - 1]
        /\ phase' = [x \in Object |->
                        CASE x = o -> "gone"
                          [] x = p /\ refs[p] = 1 -> "dying"
                          [] OTHER -> phase[x]]
    BY <1>4 DEF DropFields
  <2>5. /\ phase'[o] = "gone"
        /\ phase'[p] = IF refs[p] = 1 THEN "dying" ELSE "live"
        /\ \A x \in Object \ {o, p} : phase'[x] = phase[x]
    BY <2>1, <2>3, <2>4
  <2>6. /\ refs' \in [Object -> Nat]
        /\ phase' \in [Object -> {"none", "live", "dying", "deleted", "gone"}]
    <3>1. refs' \in [Object -> Nat]
      BY <1>1, <2>1, <2>3, <2>4
    <3>2. phase' = [x \in Object |-> phase'[x]]
      BY <2>4
    <3>3. \A x \in Object : phase'[x] \in {"none", "live", "dying", "deleted", "gone"}
      BY <1>1, <2>5
    <3> QED BY <3>1, <3>2, <3>3
  <2>7. TypeOK'
    BY <1>1, <2>6 DEF LifetimeInv, TypeOK
  <2>8. ParentKinds'
    BY <1>1, <2>1, <2>3, <2>5, ObjectKinds DEF LifetimeInv, ParentKinds
  <2>9. CountsHolders'
    <3> SUFFICES ASSUME NEW x \in Object
                 PROVE  /\ refs'[x] = arcs'[x] + Cardinality(HandlesOf(x)') + Cardinality(Children(x)')
                        /\ phase'[x] = "live" <=> refs'[x] > 0
      BY DEF CountsHolders
    <3>1. /\ Cardinality(HandlesOf(x)) \in Nat /\ Cardinality(Children(x)) \in Nat
          /\ arcs[x] \in Nat
      BY HoldersFinite DEF LifetimeInv, TypeOK
    <3>2. refs[x] = arcs[x] + Cardinality(HandlesOf(x)) + Cardinality(Children(x))
      BY DEF LifetimeInv, CountsHolders
    <3>3. Children(x)' = IF x = p THEN Children(x) \ {o} ELSE Children(x)
      BY <1>1, <2>1, <2>3, <2>5 DEF Children
    <3>4. refs'[x] = IF x = p THEN refs[x] - 1 ELSE refs[x]
      BY <1>1, <2>1, <2>4
    <3>5. Cardinality(Children(x)') =
            IF x = p THEN Cardinality(Children(x)) - 1 ELSE Cardinality(Children(x))
      BY <2>2, <3>3, HoldersFinite, FS_RemoveElement DEF LifetimeInv
    <3>6. phase'[x] = "live" <=> refs'[x] > 0
      BY <1>1, <2>1, <2>3, <2>5, <3>4
    <3>7. arcs'[x] = arcs[x] /\ Cardinality(HandlesOf(x)') = Cardinality(HandlesOf(x))
      BY <1>1, <1>2
    <3>8. refs'[x] = arcs'[x] + Cardinality(HandlesOf(x)') + Cardinality(Children(x)')
      BY <3>1, <3>2, <3>4, <3>5, <3>7
    <3> QED BY <3>6, <3>8
  <2> QED BY <2>7, <2>8, <2>9 DEF LifetimeInv
<1> QED BY <1>3, <1>4

-----------------------------------------------------------------------------
(* The invariant.                                                          *)

LEMMA LifetimeInit == Init => LifetimeInv
<1> SUFFICES ASSUME Init PROVE LifetimeInv
  OBVIOUS
<1>1. TypeOK
  BY ArcBound DEF Init, TypeOK
<1>2. ParentKinds
  BY ObjectKinds DEF Init, ParentKinds
<1>3. CountsHolders
  <2> SUFFICES ASSUME NEW o \in Object
               PROVE  /\ refs[o] = arcs[o] + Cardinality(HandlesOf(o)) + Cardinality(Children(o))
                      /\ phase[o] = "live" <=> refs[o] > 0
    BY DEF CountsHolders
  <2>1. HandlesOf(o) = {} /\ Children(o) = {}
    BY DEF Init, HandlesOf, Children
  <2> QED BY <2>1, FS_EmptySet DEF Init
<1> QED BY <1>1, <1>2, <1>3 DEF LifetimeInv

\* Whatever a program does with what it holds.
LEMMA ProgramKeeps ==
  ASSUME LifetimeInv, Program PROVE LifetimeInv'
<1>1. ASSUME NEW u \in Umem, NEW x \in RingSizes, NEW y \in RingSizes,
             NEW created \in BOOLEAN, NewUmem(u, x, y, created)
      PROVE  LifetimeInv'
  BY <1>1, MakeKeeps, ObjectKinds DEF NewUmem, Ring
<1>2. ASSUME NEW u \in Umem, NEW s \in Socket, NEW x \in RingSizes, NEW y \in RingSizes,
             NEW created \in BOOLEAN, NewSocket(s, u, x, y, created)
      PROVE  LifetimeInv'
  BY <1>2, MakeKeeps, ObjectKinds DEF NewSocket, Ring
<1>3. ASSUME NEW u \in Umem, NEW s \in Socket, NEW x \in RingSizes,
             NEW created \in BOOLEAN, NewRx(s, u, x, created)
      PROVE  LifetimeInv'
  BY <1>3, MakeKeeps, ObjectKinds DEF NewRx, Ring
<1>4. ASSUME NEW u \in Umem, NEW s \in Socket, NEW x \in RingSizes,
             NEW created \in BOOLEAN, NewTx(s, u, x, created)
      PROVE  LifetimeInv'
  BY <1>4, MakeKeeps, ObjectKinds DEF NewTx, Ring
<1>5. ASSUME NEW o \in Object, CloneArc(o) \/ DropArc(o) PROVE LifetimeInv'
  BY <1>5, CloneKeeps, DropArcKeeps
<1>6. ASSUME NEW h \in handles, DropHandle(h) PROVE LifetimeInv'
  BY <1>6, DropHandleKeeps
<1> QED BY <1>1, <1>2, <1>3, <1>4, <1>5, <1>6 DEF Program

\* No operation of the program runs the Drop of an object.
LEMMA ProgramDeletesNothing ==
  ASSUME LifetimeInv, Program, NEW x \in Object, phase[x] \in {"live", "dying"}
  PROVE  phase'[x] \in {"live", "dying"}
<1> USE DEF LifetimeInv, TypeOK
<1>1. ASSUME NEW o \in Object, Release(o) PROVE phase'[x] \in {"live", "dying"}
  BY <1>1 DEF Release
<1>2. ASSUME NEW o \in Umem \cup Socket, NEW p \in Object, NEW ringSize, NEW created,
             Make(o, p, ringSize, created)
      PROVE  phase'[x] \in {"live", "dying"}
  <2>1. CASE Created(o, p, ringSize)
    BY <2>1 DEF Created
  <2>2. CASE NotCreated(p)
    BY <1>1, <2>2 DEF NotCreated
  <2> QED BY <1>2, <2>1, <2>2 DEF Make
<1>3. ASSUME NEW u \in Umem, NEW y \in RingSizes, NEW z \in RingSizes,
             NEW created \in BOOLEAN, NewUmem(u, y, z, created)
      PROVE  phase'[x] \in {"live", "dying"}
  BY <1>2, <1>3, ObjectKinds DEF NewUmem
<1>4. ASSUME NEW u \in Umem, NEW s \in Socket, NEW y \in RingSizes, NEW z \in RingSizes,
             NEW created \in BOOLEAN,
             \/ NewSocket(s, u, y, z, created)
             \/ NewRx(s, u, y, created)
             \/ NewTx(s, u, y, created)
      PROVE  phase'[x] \in {"live", "dying"}
  BY <1>2, <1>4, ObjectKinds DEF NewSocket, NewRx, NewTx
<1>5. ASSUME NEW o \in Object, CloneArc(o) \/ DropArc(o)
      PROVE  phase'[x] \in {"live", "dying"}
  BY <1>1, <1>5 DEF CloneArc, DropArc
<1>6. ASSUME NEW h \in handles, DropHandle(h) PROVE phase'[x] \in {"live", "dying"}
  <2>1. h[1] \in Object
    BY ObjectKinds
  <2> QED BY <1>1, <1>6, <2>1 DEF DropHandle
<1> QED BY <1>3, <1>4, <1>5, <1>6 DEF Program

\* The Drop of an object, or of its fields, touches no other object that is
\* not gone, but for the last Arc of its parent.
LEMMA EndingDeletesOne ==
  ASSUME LifetimeInv, NEW o \in Object, Ending(o),
         NEW x \in Object, phase[x] \in {"live", "dying"}
  PROVE  phase'[x] \in {"live", "dying"} \/ (x = o /\ phase'[x] = "deleted")
<1> USE DEF LifetimeInv, TypeOK
<1>1. CASE RunDrop(o)
  BY <1>1 DEF RunDrop
<1>2. CASE DropFields(o)
  <2>1. x # o
    BY <1>2 DEF DropFields
  <2> QED BY <1>2, <2>1 DEF DropFields
<1> QED BY <1>1, <1>2, ObjectKinds DEF Ending, DeleteSocket, DeleteUmem, Unmap

LEMMA EndingKeeps ==
  ASSUME LifetimeInv, NEW o \in Object, Ending(o) PROVE LifetimeInv'
BY RunDropKeeps, DropFieldsKeeps, ObjectKinds
   DEF Ending, DeleteSocket, DeleteUmem, Unmap

LEMMA LifetimeStep == LifetimeInv /\ [Next]_vars => LifetimeInv'
<1> SUFFICES ASSUME LifetimeInv, [Next]_vars PROVE LifetimeInv'
  OBVIOUS
<1>1. CASE UNCHANGED vars
  BY <1>1 DEF vars, LifetimeInv, TypeOK, ParentKinds, CountsHolders, HandlesOf, Children
<1> QED BY <1>1, NewAreaKeeps, ProgramKeeps, EndingKeeps DEF Next

\* However Arcs and handles are made, cloned and dropped, by whatever threads,
\* every strong count is right.
THEOREM LifetimeInvariant == Spec => []LifetimeInv
BY LifetimeInit, LifetimeStep, PTL DEF Spec

-----------------------------------------------------------------------------
(* What the invariant is for.                                              *)

\* An object is a child of its parent until its own Arc of it is dropped,
\* after its Drop: the parent is alive.
LEMMA InvParentsOutlive == LifetimeInv => ParentsOutlive
<1> SUFFICES ASSUME LifetimeInv, NEW o \in Object \ {Area}, phase[o] \in {"live", "dying"}
             PROVE  phase[parent[o]] = "live"
  BY DEF ParentsOutlive
<1>1. parent[o] \in Object
  BY ObjectKinds DEF LifetimeInv, ParentKinds, Object
<1>2. o \in Children(parent[o])
  BY DEF Children
<1> QED BY <1>1, <1>2, HeldIsLive

\* A handle keeps its object alive, which keeps alive what it was made from,
\* up to the area.
LEMMA InvHandlesUsable == LifetimeInv => HandlesUsable
<1> SUFFICES ASSUME LifetimeInv, NEW h \in handles
             PROVE  /\ phase[h[1]] = "live" /\ phase[parent[h[1]]] = "live"
                    /\ phase[Area] = "live"
  BY DEF HandlesUsable
<1> DEFINE o == h[1]
<1>1. o \in Umem \cup Socket /\ o \in Object \ {Area} /\ h \in HandlesOf(o)
  BY ObjectKinds DEF LifetimeInv, TypeOK, HandlesOf
<1>2. phase[o] = "live"
  BY <1>1, HeldIsLive
<1>3. phase[parent[o]] = "live"
  BY <1>1, <1>2, InvParentsOutlive DEF ParentsOutlive
<1>4. CASE o \in Umem
  BY <1>2, <1>3, <1>4 DEF LifetimeInv, ParentKinds
<1>5. CASE o \in Socket
  <2>1. parent[o] \in Umem
    BY <1>2, <1>5 DEF LifetimeInv, ParentKinds
  <2>2. phase[parent[parent[o]]] = "live"
    BY <1>3, <2>1, ObjectKinds, InvParentsOutlive DEF ParentsOutlive
  <2> QED BY <1>2, <1>3, <2>1, <2>2 DEF LifetimeInv, ParentKinds
<1> QED BY <1>1, <1>4, <1>5

\* Every state component is of its kind.
THEOREM LifetimeTypeCorrect == Spec => []TypeOK
BY LifetimeInvariant, PTL DEF LifetimeInv

\* The strong count of an object is the number of its holders.
THEOREM CountsAreHolders == Spec => []CountsHolders
BY LifetimeInvariant, PTL DEF LifetimeInv

\* xsk_umem__delete and munmap come after the end of what depends on them.
THEOREM ParentsEndLast == Spec => []ParentsOutlive
BY LifetimeInvariant, InvParentsOutlive, PTL

\* A handle can be used as long as a program has it.
THEOREM HandlesStayUsable == Spec => []HandlesUsable
BY LifetimeInvariant, InvHandlesUsable, PTL

-----------------------------------------------------------------------------
(* Powers of two.                                                          *)

\* 2^n is the number of subsets of n things: the library has no other fact
\* about powers.
LEMMA PowerCounts ==
  ASSUME NEW n \in Nat
  PROVE  IsFiniteSet(SUBSET (1 .. n)) /\ Cardinality(SUBSET (1 .. n)) = 2^n
<1>1. IsFiniteSet(1 .. n) /\ Cardinality(1 .. n) = n
  BY FS_Interval
<1> QED BY <1>1, FS_SUBSET

\* Half of the subsets of n + 1 things have the last one.
LEMMA PowersDouble ==
  /\ 2^0 = 1
  /\ \A n \in Nat : 2^n \in Nat \ {0} /\ 2^(n + 1) = 2 * 2^n
<1>1. 2^0 = 1
  <2>1. SUBSET (1 .. 0) = {{}}
    OBVIOUS
  <2> QED BY <2>1, PowerCounts, FS_Singleton
<1>2. ASSUME NEW n \in Nat PROVE 2^n \in Nat \ {0}
  <2>1. 2^n \in Nat /\ (2^n = 0 <=> SUBSET (1 .. n) = {})
    BY PowerCounts, FS_CardinalityType, FS_EmptySet
  <2>2. {} \in SUBSET (1 .. n)
    OBVIOUS
  <2> QED BY <2>1, <2>2
<1>3. ASSUME NEW n \in Nat PROVE 2^(n + 1) = 2 * 2^n
  <2> DEFINE A == SUBSET (1 .. n)
             B == {X \cup {n + 1} : X \in A}
             f == [X \in A |-> X \cup {n + 1}]
  <2>1. IsFiniteSet(A) /\ Cardinality(A) = 2^n
    BY PowerCounts
  <2>2. \A X \in A : n + 1 \notin X
    OBVIOUS
  <2>3. f \in Bijection(A, B)
    <3>1. ASSUME NEW X \in A, NEW Y \in A, f[X] = f[Y] PROVE X = Y
      <4>1. X \cup {n + 1} = Y \cup {n + 1}
        BY <3>1
      <4> QED BY <4>1, <2>2
    <3> HIDE DEF A
    <3> QED BY <3>1 DEF Bijection, Injection, Surjection, IsInjective
  <2>4. IsFiniteSet(B) /\ Cardinality(B) = 2^n
    BY <2>1, <2>3, FS_Bijection, Zenon DEF ExistsBijection
  <2>5. A \cap B = {}
    BY <2>2
  <2>6. SUBSET (1 .. n + 1) = A \cup B
    <3>1. ASSUME NEW Z \in SUBSET (1 .. n + 1), n + 1 \in Z PROVE Z \in B
      <4>1. \A x \in Z \ {n + 1} : x \in 1 .. n
        OBVIOUS
      <4>3. Z \ {n + 1} \in A
        BY <4>1
      <4>2. Z = (Z \ {n + 1}) \cup {n + 1}
        BY <3>1
      <4> HIDE DEF A
      <4> QED BY <4>2, <4>3
    <3>2. ASSUME NEW Z \in SUBSET (1 .. n + 1), n + 1 \notin Z PROVE Z \in A
      <4>1. \A x \in Z : x \in 1 .. n
        BY <3>2
      <4> QED BY <4>1
    <3>3. 1 .. n \subseteq 1 .. n + 1 /\ n + 1 \in 1 .. n + 1
      OBVIOUS
    <3>4. A \cup B \subseteq SUBSET (1 .. n + 1)
      BY <3>3
    <3> HIDE DEF A, B
    <3> QED BY <3>1, <3>2, <3>4
  <2>7. Cardinality(A \cup B) = 2^n + 2^n - 0
    <3> HIDE DEF A, B
    <3> QED BY <2>1, <2>4, <2>5, FS_Union, FS_EmptySet
  <2>8. Cardinality(SUBSET (1 .. n + 1)) = 2^(n + 1)
    BY PowerCounts
  <2>9. 2^(n + 1) = 2^n + 2^n - 0
    BY <2>6, <2>7, <2>8, Zenon
  <2>10. \A x \in Nat : x + x - 0 = 2 * x
    OBVIOUS
  <2> HIDE DEF A, B
  <2> QED BY <2>9, <2>10, <1>2
<1> QED BY <1>1, <1>2, <1>3

\* The least-number principle.
LEMMA Least ==
  ASSUME NEW T \in SUBSET Nat, T # {}
  PROVE  \E x \in T : \A y \in T : x <= y
<1>1. PICK x \in T : \A y \in T : ~(<<y, x>> \in OpToRel(<, Nat))
  <2> HIDE DEF OpToRel
  <2>1. IsWellFoundedOn(OpToRel(<, Nat), Nat)
    BY NatLessThanWellFounded
  <2> QED BY <2>1, WFMin, Zenon
<1>2. \A y \in T : <<y, x>> \in OpToRel(<, Nat) <=> y < x
  BY DEF OpToRel
<1>3. ASSUME NEW y \in T PROVE x <= y
  <2>1. ~(y < x)
    BY <1>1, <1>2
  <2> QED BY <2>1
<1> QED BY <1>3

\* Every larger power is a multiple of every smaller one.
LEMMA PowersAddUp ==
  ASSUME NEW m \in Nat, NEW d \in Nat
  PROVE  2^(m + d) = 2^m * 2^d
<1> DEFINE T == {e \in Nat : 2^(m + e) # 2^m * 2^e}
<1>1. SUFFICES ASSUME T # {} PROVE FALSE
  OBVIOUS
<1>2. PICK e \in T : \A y \in T : e <= y
  BY <1>1, Least
<1>3. e # 0
  <2>1. 2^m \in Nat /\ 2^0 = 1 /\ m + 0 = m
    BY PowersDouble
  <2>2. 2^(m + 0) = 2^m * 2^0
    BY <2>1
  <2>3. 0 \notin T
    BY <2>2
  <2> QED BY <2>3
<1>4. e - 1 \in Nat /\ e - 1 \notin T
  BY <1>2, <1>3
<1>5. 2^(m + (e - 1)) = 2^m * 2^(e - 1)
  BY <1>4
<1>6. 2^(m + e) = 2 * 2^(m + (e - 1)) /\ 2^e = 2 * 2^(e - 1)
  <2>1. m + (e - 1) \in Nat /\ (m + (e - 1)) + 1 = m + e /\ (e - 1) + 1 = e
    BY <1>4
  <2> QED BY <2>1, <1>4, PowersDouble
<1>7. 2^m \in Nat /\ 2^(e - 1) \in Nat
  BY <1>4, PowersDouble
<1>8. 2^(m + e) = 2^m * 2^e
  BY <1>5, <1>6, <1>7
<1> QED BY <1>8

\* The highest bit of a number.
LEMMA HighestBit ==
  ASSUME NEW v \in 1 .. 2^Width - 1
  PROVE  \E k \in 0 .. Width - 1 : 2^k <= v /\ v < 2 * 2^k
<1> DEFINE T == {j \in Nat : v < 2^j}
<1>1. Width \in Nat /\ 2^Width \in Nat /\ v \in Nat /\ v >= 1
  BY LifetimeAssumption, PowersDouble
<1>2. Width \in T
  BY <1>1
<1>3. PICK j \in T : \A y \in T : j <= y
  BY <1>2, Least
<1>4. j # 0
  <2>1. ~(v < 2^0)
    BY <1>1, PowersDouble
  <2> QED BY <2>1
<1>5. j - 1 \in 0 .. Width - 1 /\ j - 1 \in Nat /\ j - 1 \notin T
  BY <1>1, <1>2, <1>3, <1>4
<1>6. 2^j = 2 * 2^(j - 1) /\ 2^(j - 1) \in Nat
  <2>1. (j - 1) + 1 = j
    OBVIOUS
  <2> QED BY <2>1, <1>5, PowersDouble
<1>7. 2^(j - 1) <= v /\ v < 2 * 2^(j - 1)
  BY <1>1, <1>5, <1>6
<1> QED BY <1>5, <1>7

\* The digits at and above the highest bit.
LEMMA BitAt ==
  ASSUME NEW k \in Nat, NEW v \in Nat
  PROVE  /\ 2^k <= v /\ v < 2 * 2^k => Bit(v, k) = 1
         /\ v < 2^k => Bit(v, k) = 0
<1>1. 2^k \in Nat /\ 2^k > 0
  BY PowersDouble
<1>2. \A m \in Nat : m > 0 /\ m <= v /\ v < 2 * m => v \div m = 1
  OBVIOUS
<1>3. \A m \in Nat : m > 0 /\ v < m => v \div m = 0
  OBVIOUS
<1>4. 1 % 2 = 1 /\ 0 % 2 = 0
  OBVIOUS
<1> QED BY <1>1, <1>2, <1>3, <1>4 DEF Bit

\* A power of two has only its highest bit.
LEMMA PowerBits ==
  ASSUME NEW k \in Nat, NEW i \in Nat, i # k
  PROVE  Bit(2^k, i) = 0
<1>1. CASE k < i
  <2>1. 2^k \in Nat /\ 2^k > 0 /\ 2^(i - k - 1) \in Nat /\ 2^(i - k - 1) > 0
    BY <1>1, PowersDouble
  <2>2. 2^(i - k) = 2 * 2^(i - k - 1)
    <3>1. i - k - 1 \in Nat /\ (i - k - 1) + 1 = i - k
      BY <1>1
    <3> QED BY <3>1, PowersDouble
  <2>3. 2^i = 2^k * 2^(i - k)
    <3>1. i - k \in Nat /\ k + (i - k) = i
      BY <1>1
    <3> QED BY <3>1, PowersAddUp
  <2>4. \A a, b \in Nat : a > 0 /\ b > 0 => a < a * (2 * b)
    OBVIOUS
  <2>5. 2^k < 2^i
    BY <2>1, <2>2, <2>3, <2>4
  <2> QED BY <2>1, <2>5, BitAt
<1>2. CASE i < k
  <2>1. k - i - 1 \in Nat /\ (k - i - 1) + 1 = k - i /\ i + (k - i) = k /\ k - i \in Nat
    BY <1>2
  <2>2. 2^i \in Nat /\ 2^i > 0 /\ 2^(k - i - 1) \in Nat
    BY <2>1, PowersDouble
  <2>3. 2^k = 2^i * (2 * 2^(k - i - 1))
    <3>1. 2^(k - i) = 2 * 2^(k - i - 1)
      BY <2>1, PowersDouble
    <3>2. 2^(i + (k - i)) = 2^i * 2^(k - i)
      BY <2>1, PowersAddUp
    <3> QED BY <2>1, <3>1, <3>2
  <2>4. \A m, q \in Nat : m > 0 => (m * q) \div m = q
    OBVIOUS
  <2>5. 2^k \div 2^i = 2 * 2^(k - i - 1)
    BY <2>2, <2>3, <2>4
  <2>6. \A q \in Nat : (2 * q) % 2 = 0
    OBVIOUS
  <2> QED BY <2>2, <2>5, <2>6 DEF Bit
<1> QED BY <1>1, <1>2

\* is_pow_of_two is true for the powers of two a u32 can have and for no other
\* number: a ring size that is one is not refused, and 0 is.
THEOREM PowersRecognized ==
  \A v \in 0 .. 2^Width - 1 :
    IsPowOfTwo(v) <=> \E k \in 0 .. Width - 1 : v = 2^k
<1> SUFFICES ASSUME NEW v \in 0 .. 2^Width - 1
             PROVE  IsPowOfTwo(v) <=> \E k \in 0 .. Width - 1 : v = 2^k
  OBVIOUS
<1>1. Width \in Nat /\ 2^Width \in Nat /\ v \in Nat
  BY LifetimeAssumption, PowersDouble
<1>2. ASSUME IsPowOfTwo(v) PROVE \E k \in 0 .. Width - 1 : v = 2^k
  <2>1. v \in 1 .. 2^Width - 1 /\ v - 1 \in Nat
    BY <1>1, <1>2 DEF IsPowOfTwo
  <2>2. PICK k \in 0 .. Width - 1 : 2^k <= v /\ v < 2 * 2^k
    BY <2>1, HighestBit
  <2>3. k \in Nat /\ 2^k \in Nat
    BY <1>1, PowersDouble
  <2>4. Bit(v, k) = 1
    BY <1>1, <2>2, <2>3, BitAt
  <2>5. ~(Bit(v - 1, k) = 1)
    BY <1>2, <2>4 DEF IsPowOfTwo, Meets
  <2>6. ~(2^k <= v - 1)
    BY <2>1, <2>2, <2>3, <2>5, BitAt
  <2>7. v = 2^k
    BY <1>1, <2>2, <2>3, <2>6
  <2> QED BY <2>7
<1>3. ASSUME NEW k \in 0 .. Width - 1, v = 2^k PROVE IsPowOfTwo(v)
  <2>1. k \in Nat /\ 2^k \in Nat /\ 2^k > 0
    BY <1>1, PowersDouble
  <2>2. v # 0 /\ v - 1 \in Nat /\ v - 1 < 2^k
    BY <1>3, <2>1
  <2>3. ASSUME NEW i \in 0 .. Width - 1, Bit(v, i) = 1 PROVE Bit(v - 1, i) # 1
    <3>1. i \in Nat
      BY <1>1
    <3>2. i = k
      BY <1>3, <2>1, <2>3, <3>1, PowerBits
    <3>3. Bit(v - 1, k) = 0
      BY <2>1, <2>2, BitAt
    <3> QED BY <3>2, <3>3
  <2> QED BY <2>2, <2>3 DEF IsPowOfTwo, Meets
<1> QED BY <1>2, <1>3

-----------------------------------------------------------------------------
(* The sizes of rings.                                                     *)

\* An object is made only when the size of each of its rings passed the test.
LEMMA MakeFits ==
  ASSUME LifetimeInv, MasksFit, NEW o \in Object, NEW p \in Object, NEW ringSize,
         \A r \in DOMAIN ringSize : ringSize[r] \in RingSizes,
         NEW created, Make(o, p, ringSize, created)
  PROVE  MasksFit'
<1>1. CASE NotCreated(p)
  BY <1>1 DEF NotCreated, MasksFit
<1>2. CASE Created(o, p, ringSize) /\ \A r \in DOMAIN ringSize : IsPowOfTwo(ringSize[r])
  <2>1. \A r \in DOMAIN ringSize : \E k \in 0 .. Width - 1 : ringSize[r] = 2^k
    BY <1>2, LifetimeAssumption, PowersRecognized
  <2>2. \A x \in Object : sizes'[x] = IF x = o THEN ringSize ELSE sizes[x]
    BY <1>2 DEF Created, LifetimeInv, TypeOK
  <2> QED BY <2>1, <2>2 DEF MasksFit
<1> QED BY <1>1, <1>2 DEF Make

\* Nothing else changes the size of a ring.
LEMMA StepFits == LifetimeInv /\ MasksFit /\ [Next]_vars => MasksFit'
<1> SUFFICES ASSUME LifetimeInv, MasksFit, [Next]_vars PROVE MasksFit'
  OBVIOUS
<1> USE ObjectKinds
<1>1. CASE UNCHANGED sizes
  BY <1>1 DEF MasksFit
<1>2. ASSUME NEW u \in Umem, NEW x \in RingSizes, NEW y \in RingSizes,
             NEW created \in BOOLEAN, NewUmem(u, x, y, created)
      PROVE  MasksFit'
  BY <1>2, MakeFits DEF NewUmem
<1>3. ASSUME NEW u \in Umem, NEW s \in Socket, NEW x \in RingSizes, NEW y \in RingSizes,
             NEW created \in BOOLEAN, NewSocket(s, u, x, y, created)
      PROVE  MasksFit'
  BY <1>3, MakeFits DEF NewSocket
<1>4. ASSUME NEW u \in Umem, NEW s \in Socket, NEW x \in RingSizes,
             NEW created \in BOOLEAN, NewRx(s, u, x, created) \/ NewTx(s, u, x, created)
      PROVE  MasksFit'
  BY <1>4, MakeFits DEF NewRx, NewTx
<1>5. ASSUME NEW o \in Object, CloneArc(o) \/ DropArc(o) PROVE MasksFit'
  BY <1>1, <1>5 DEF CloneArc, DropArc
<1>6. ASSUME NEW h \in handles, DropHandle(h) PROVE MasksFit'
  BY <1>1, <1>6 DEF DropHandle
<1>7. CASE Program
  BY <1>2, <1>3, <1>4, <1>5, <1>6, <1>7 DEF Program
<1>8. ASSUME NEW o \in Object, Ending(o) PROVE MasksFit'
  BY <1>1, <1>8 DEF Ending, DeleteSocket, DeleteUmem, Unmap, RunDrop, DropFields
<1> QED BY <1>1, <1>7, <1>8 DEF Next, NewArea, vars

\* Whatever sizes of whatever width programs ask for, and whichever of the
\* constructors they call, every ring has a power of two of entries.
THEOREM RingSizesFit == Spec => []MasksFit
<1>1. Init => MasksFit
  BY DEF Init, MasksFit
<1> QED BY <1>1, StepFits, LifetimeInvariant, PTL DEF Spec
=============================================================================
