CONSTANTS
  b1 = b1  b2 = b2  b3 = b3  b4 = b4
  Buf <- Bufs2
  Program <- AllPrograms
  AreaOrder <- Order2
  Link = {0, 1}
  Vec = {"bufs"}
  Deque = {0, 1}
  RingSize = 2
  PendingLen = 2
  VecCapacity = 4
  MaxBatch = 4
  Packet <- Packet1
  NoPacket = none
  Swap <- Swapped
  Arriving <- Everywhere
  SendtoOutcome = {"ok"}
  BufNum <- AllBufs
  StartBufs = 4
  InitialFill = 1
  FillThreshold = 1
  BatchSize = 2
SPECIFICATION FairWorkerSpec
INVARIANTS DeficitExact FillsComplete
PROPERTIES FramesLeave ReceiveGoesOn FillTaken
CHECK_DEADLOCK FALSE
