CONSTANTS
  b1 = b1  b2 = b2  b3 = b3  b4 = b4
  Buf <- Bufs4
  Program <- AllPrograms
  AreaOrder <- Order4
  Link = {0, 1}
  Vec = {"bufs"}
  Deque = {0, 1}
  RingSize = 2
  PendingLen = 2
  VecCapacity = 4
  MaxBatch = 4
  Packet <- Packet2
  NoPacket = none
  Swap <- Swapped
  Arriving <- OneWay
  SendtoOutcome = {"ok", "busy", "fatal"}
  BufNum <- EchoWith3
  StartBufs = 4
  InitialFill = 2
  FillThreshold = 2
  BatchSize = 2
SPECIFICATION WorkerSpec
INVARIANTS WorkerTypeOK DeficitExact
PROPERTIES ForwardsInOrder
CHECK_DEADLOCK FALSE
