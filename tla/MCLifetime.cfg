CONSTANTS
  u1 = u1  u2 = u2  s1 = s1
  Umem <- Umem2
  Socket <- Socket1
  Area = area
  NoObject = none
  MaxArcs <- TwoOfSome
  Width = 8
  RingSizes = {0, 3, 4}
  BufNum = 2
  BufLen = 3
  Reserved = 1
  Length = {2, 3}
SPECIFICATION FairBufSpec
INVARIANTS BufTypeOK CountsHolders ParentsOutlive HandlesUsable MasksFit MemoryNotShared DescriptorsValid KernelMemoryMapped
PROPERTIES AllReleased
CHECK_DEADLOCK FALSE
