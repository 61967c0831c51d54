---------------------------- MODULE BoundedFifo ----------------------------
(***************************************************************************)
(* What a ring shared between afxdp and the kernel promises: a bounded     *)
(* queue.  A batch becomes visible at once, in order; entries leave one at *)
(* a time from the head.  XskRing implements this module.                  *)
(***************************************************************************)
EXTENDS Naturals, Sequences

CONSTANTS
  Value,     \* what an entry may hold (umem addresses)
  NoValue,   \* `out' before anything was taken
  Capacity   \* how many entries the queue holds at most

VARIABLES
  q,         \* entries published and not yet taken, oldest first
  out        \* the entry taken last

Init == q = <<>> /\ out = NoValue

\* A producer publishes a whole batch.
Put(batch) ==
  /\ Len(q) + Len(batch) <= Capacity
  /\ q' = q \o batch
  /\ UNCHANGED out

\* The consumer takes the oldest entry.
Take ==
  /\ q # <<>>
  /\ out' = Head(q)
  /\ q' = Tail(q)

Next ==
  \/ \E n \in 1..Capacity : \E batch \in [1..n -> Value] : Put(batch)
  \/ Take

Spec == Init /\ [][Next]_<<q, out>>

\* Entries do not stay behind: the queue is drained as long as it is not empty.
Drained == WF_<<q, out>>(Take)
=============================================================================
