CONSTANTS
  b1 = b1  b2 = b2  b3 = b3  b4 = b4
  Buf <- Bufs3
  Program = {"multicore"}
  AreaOrder <- Order3
  Link = {0, 1}
  Vec = {"bufs"}
  Deque = {0, 1}
  RingSize = 3
  PendingLen = 2
  VecCapacity = 4
  MaxBatch = 4
  Packet <- Packet1
  NoPacket = none
  Swap <- Swapped
  Arriving <- OneWay
  SendtoOutcome = {"ok", "busy"}
  BufNum <- AllBufs
  StartBufs = 4
  InitialFill = 1
  FillThreshold = 1
  BatchSize = 2
SPECIFICATION FairWorkerSpec
PROPERTIES FramesLeave
CHECK_DEADLOCK FALSE
