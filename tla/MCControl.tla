----------------------------- MODULE MCControl -----------------------------
(* One controller and a few workers. *)
EXTENDS Control

\* Every worker on a core of its own.
OwnCores == {[w \in Thread |-> w]}

\* The same, or all on one core.
AnyCores == OwnCores \cup {[w \in Thread |-> 1]}

\* One packet each; one for the first worker, none for the others.
OneEach  == [w \in Thread |-> 1]
OneFirst == [w \in Thread |-> IF w = 1 THEN 1 ELSE 0]
=============================================================================
