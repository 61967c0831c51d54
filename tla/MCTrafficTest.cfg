CONSTANTS
  Total = 2
  BurstSize = 1
  BurstGap = 0
  EndTime = 2
  Padding = 0
  BufNum = 4
  RingSize = 2
  PendingLen = 2
  SocketBatch = 2
  FillThreshold = 2
  FillBatch = 2
  ServiceThreshold = 2
  ServiceBatch = 2
  MaxTime = 3
  Faults = {"drop", "dup", "reorder", "corrupt"}
  MaxFaults = 1
  DamagedSeqs = {1, 3, 4}
SPECIFICATION Spec
INVARIANTS TrafficTypeOK DeficitsTrue CanGoOn Accounts NoFalseAlarm VerdictSound
CHECK_DEADLOCK FALSE
