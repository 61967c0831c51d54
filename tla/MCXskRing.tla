----------------------------- MODULE MCXskRing -----------------------------
(* A small ring for TLC; the .cfg chooses size, laps and batches. *)
EXTENDS XskRing
=============================================================================
