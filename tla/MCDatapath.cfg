CONSTANTS
  Buf = {b1, b2, b3}
  Link = {l1, l2}
  Vec = {v}
  Deque = {d}
  RingSize = 2
  PendingLen = 2
  VecCapacity = 3
  MaxBatch = 3
  Packet = {p}
  NoPacket = none
  Arriving <- Everywhere
  SendtoOutcome = {"ok", "busy", "fatal"}
SPECIFICATION Spec
SYMMETRY BufSymmetry
INVARIANTS DpTypeOK Ownership NoLibraryPanic FramesFull
PROPERTIES TxKicked
CHECK_DEADLOCK FALSE
