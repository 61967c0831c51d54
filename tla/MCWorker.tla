------------------------------ MODULE MCWorker ------------------------------
(* The packet loops with a handful of buffers. *)
EXTENDS Worker, TLC

CONSTANTS b1, b2, b3, b4

AllPrograms == {"multicore", "2link", "1link", "rxdrop", "dump"}

\* All buffers, or three for l2fwd-1link.rs.
AllBufs   == [p \in Program \ Workers |-> Cardinality(Buf)]
EchoWith3 == [AllBufs EXCEPT !["1link"] = 3]

\* A packet is a name and whether its MAC addresses are swapped; packets
\* arrive as their senders made them.
Packet1 == {"p1"} \X BOOLEAN
Packet2 == {"p1", "p2"} \X BOOLEAN
Swapped == [p \in Packet |-> <<p[1], ~p[2]>>]

\* Traffic in both directions, or in one only.
Fresh      == {p \in Packet : ~p[2]}
Everywhere == [l \in Link |-> Fresh]
OneWay     == [l \in Link |-> IF l = 0 THEN Fresh ELSE {}]

Bufs2  == {b1, b2}
Order2 == <<b1, b2>>
Bufs3  == {b1, b2, b3}
Order3 == <<b1, b2, b3>>
Bufs4  == {b1, b2, b3, b4}
Order4 == <<b1, b2, b3, b4>>
=============================================================================
