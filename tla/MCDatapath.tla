---------------------------- MODULE MCDatapath ----------------------------
(* Every order of calls and kernel steps over a few interchangeable buffers. *)
EXTENDS Datapath, TLC

Everywhere  == [l \in Link |-> Packet]
BufSymmetry == Permutations(Buf)
=============================================================================
