----------------------------- MODULE MCLifetime -----------------------------
(* One area, with one or two umems and a socket. *)
EXTENDS Buffers

CONSTANTS u1, u2, s1

Umem1   == {u1}
Umem2   == {u1, u2}
Socket1 == {s1}

\* The program clones the area and one umem.
TwoOfSome == [o \in Object |-> IF o \in {Area, u1} THEN 2 ELSE 1]
=============================================================================
