CONSTANTS
  Size = 4
  Laps = 2
  MaxBatch = 5
  Value = {a, b}
  NoValue = none
SPECIFICATION FairSpec
INVARIANTS TypeOK RingInv NoOverwrite ReadsPublished EntriesWritten
PROPERTIES IsFifo EntriesAreRead RoomReturns
CHECK_DEADLOCK FALSE
