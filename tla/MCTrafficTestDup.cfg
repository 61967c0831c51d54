CONSTANTS
  Total = 1
  BurstSize = 2
  BurstGap = 0
  EndTime = 1
  Padding = 0
  BufNum = 5
  RingSize = 2
  PendingLen = 2
  SocketBatch = 2
  FillThreshold = 2
  FillBatch = 2
  ServiceThreshold = 2
  ServiceBatch = 2
  MaxTime = 2
  Faults = {"dup"}
  MaxFaults = 1
  DamagedSeqs = {}
SPECIFICATION Spec
INVARIANTS DuplicatesCounted
CHECK_DEADLOCK FALSE
