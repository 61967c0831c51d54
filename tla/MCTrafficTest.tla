--------------------------- MODULE MCTrafficTest ---------------------------
(* The traffic test with a packet or two and a short clock. *)
EXTENDS TrafficTest
=============================================================================
