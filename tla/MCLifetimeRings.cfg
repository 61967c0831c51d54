CONSTANTS
  u1 = u1  u2 = u2  s1 = s1
  Umem <- Umem1
  Socket <- Socket1
  Area = area
  NoObject = none
  MaxArcs <- TwoOfSome
  Width = 8
  RingSizes = {0, 3, 4}
  BufNum = 1
  BufLen = 3
  Reserved = 1
  Length = {2, 3}
SPECIFICATION BufSpec
INVARIANTS RingsUntilDeleted
CHECK_DEADLOCK FALSE
