CONSTANTS
  b1 = b1  b2 = b2  b3 = b3  b4 = b4
  Buf <- Bufs3
  Program = {"1link"}
  AreaOrder <- Order3
  Link = {0, 1}
  Vec = {"bufs"}
  Deque = {0, 1}
  RingSize = 1
  PendingLen = 2
  VecCapacity = 4
  MaxBatch = 4
  Packet <- Packet1
  NoPacket = none
  Swap <- Swapped
  Arriving <- OneWay
  SendtoOutcome = {"ok"}
  BufNum <- AllBufs
  StartBufs = 4
  InitialFill = 1
  FillThreshold = 1
  BatchSize = 1
SPECIFICATION WorkerSpec
INVARIANTS SentSwapped
CHECK_DEADLOCK FALSE
