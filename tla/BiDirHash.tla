----------------------------- MODULE BiDirHash -----------------------------
(***************************************************************************)
(* The object behind the mutex of the traffic test, bidir_hash.rs: what it *)
(* sent and received on each port, when it is done, and its verdict.       *)
(*                                                                         *)
(* A packet is the number its first 8 bytes show and whether its bytes are *)
(* those hashed under a number; of the time only the comparisons matter.   *)
(***************************************************************************)
EXTENDS Naturals, Sequences, SequencesExt

CONSTANTS
  Total,     \* total_packets each port sends
  BurstSize, \* burst_size
  BurstGap,  \* burst_gap
  EndTime,   \* end_time: the test began at 0
  Padding    \* the two seconds of done_time_with_padding

ASSUME BiDirHashAssumption ==
  /\ Total \in Nat \ {0} /\ BurstSize \in Nat \ {0}
  /\ BurstGap \in Nat /\ EndTime \in Nat /\ Padding \in Nat

VARIABLES
  portState,  \* PortState of each port
  done,       \* both ports have sent everything
  doneTime    \* done_time_with_padding

testVars == <<portState, done, doneTime>>

Port == {0, 1}
Other(p) == (p + 1) % 2

PortState == [transmitted: Nat, received: Nat, out_of_order: Nat,
              bad_hash: Nat, duplicated: Nat, seq: Nat,
              last_received_seq: Nat, last_time: Nat]

TestInit ==
  /\ portState = [p \in Port |->
       [transmitted |-> 0, received |-> 0, out_of_order |-> 0, bad_hash |-> 0,
        duplicated |-> 0, seq |-> 1, last_received_seq |-> 0, last_time |-> 0]]
  /\ done = FALSE /\ doneTime = EndTime + Padding

-----------------------------------------------------------------------------
(* done                                                                    *)

AllSent == \A p \in Port : portState[p].transmitted >= Total

\* What done(now) returns.
IsDone(now) == EndTime < now \/ (AllSent /\ done /\ doneTime < now)

\* What it notes: the first call after all was sent starts the padding.
NoteDone(now) ==
  /\ IF ~(EndTime < now) /\ AllSent /\ ~done
     THEN done' = TRUE /\ doneTime' = now + Padding
     ELSE UNCHANGED <<done, doneTime>>
  /\ UNCHANGED portState

-----------------------------------------------------------------------------
(* transmit                                                                *)

Smaller(m, n) == IF m <= n THEN m ELSE n

\* Mutated: room for just one burst is not enough.
Burst_OffByOne(p, room) == IF room <= BurstSize THEN 0 ELSE BurstSize

\* packet_count where a whole burst is left to send.
Burst(p, room) == IF room < BurstSize THEN 0 ELSE BurstSize

Unsent(p) == Total - portState[p].transmitted

\* packet_count, where room is both the deque's and the Vec's.
PacketCount(p, room) ==
  IF Unsent(p) >= BurstSize THEN Burst(p, room) ELSE Smaller(room, Unsent(p))

Due(p, now) ==
  portState[p].transmitted < Total /\ portState[p].last_time + BurstGap < now

\* How many packets transmit queues.
Queued(p, now, room) == IF Due(p, now) THEN PacketCount(p, room) ELSE 0

\* Mutated: seq is used before it is increased.
NewPackets_Early(p, n) ==
  [k \in 1 .. n |-> [seq |-> portState[p].seq + k - 1, intact |-> TRUE]]

\* The packets themselves; seq is increased before it is used.
NewPackets(p, n) == [k \in 1 .. n |-> [seq |-> portState[p].seq + k, intact |-> TRUE]]

\* A burst there is no room for leaves last_time alone.
Transmit(p, now, room) ==
  LET n == Queued(p, now, room)
  IN  /\ portState' =
           IF Due(p, now) /\ (n > 0 \/ Unsent(p) < BurstSize)
           THEN [portState EXCEPT ![p].seq = @ + n, ![p].transmitted = @ + n,
                                  ![p].last_time = now]
           ELSE portState
      /\ UNCHANGED <<done, doneTime>>

-----------------------------------------------------------------------------
(* receive                                                                 *)

\* hashes of port p has the sequence number.
Known(p, seq) == seq \in 2 .. portState[p].seq

\* transmit stores FALSE and nothing assigns the field.
Processed(p, seq) == FALSE

One(cond) == IF cond THEN 1 ELSE 0

\* Mutated: only numbers below the last one are late; equal ones pass.
Late_Strict(s, seq) == seq < s.last_received_seq

\* Mutated: a gap in the numbers is late too.
Late_Gap(s, seq) ==
  seq # (IF s.last_received_seq = 0 THEN 1 ELSE s.last_received_seq) + 1

Late(s, seq) == seq <= s.last_received_seq

\* One iteration of the loop of receive on port p, s being its PortState.
Check(p, s, pkt) ==
  LET known == Known(Other(p), pkt.seq)
  IN  [s EXCEPT
        !.out_of_order = @ + One(Late(s, pkt.seq)),
        !.last_received_seq = IF Late(s, pkt.seq) THEN @ ELSE pkt.seq,
        !.bad_hash = @ + One(known /\ ~pkt.intact),
        !.duplicated = @ + One(known /\ Processed(Other(p), pkt.seq)),
        !.received = @ + 1]

\* The PortState before the loop and after each iteration of it.
Checked(p, s, pkts) ==
  LET run[k \in 0 .. Len(pkts)] ==
        IF k = 0 THEN s ELSE Check(p, run[k - 1], pkts[k])
  IN  run

Receive(p, pkts) ==
  /\ portState' = [portState EXCEPT ![p] = Checked(p, @, pkts)[Len(pkts)]]
  /\ UNCHANGED <<done, doneTime>>

-----------------------------------------------------------------------------
CountsAgree ==
  \A p \in Port :
    /\ portState[p].transmitted = Total
    /\ portState[p].transmitted = portState[Other(p)].received

\* finalize returns; otherwise an unwrap in it panics.
Passed ==
  /\ CountsAgree
  /\ \A p \in Port :
       /\ portState[p].bad_hash = 0
       /\ portState[p].out_of_order = 0
       /\ portState[p].duplicated = 0
=============================================================================
