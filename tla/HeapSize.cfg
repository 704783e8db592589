SPECIFICATION AllSpec
CONSTANTS
  Parts = {"pieces"}
  MaxOps = 3
  Cells = {c1, c2, c3}
  FirstSize = 1
  Reserve = 1
  MaxSize = 4
  MaxEntries = 6
INVARIANTS CurSizeIsThatOfList
CHECK_DEADLOCK FALSE
