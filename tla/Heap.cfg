SPECIFICATION AllSpec
CONSTANTS
  Parts = {"table", "list", "pieces", "compact", "blocks", "garbage"}
  MaxOps = 3
  Cells = {c1, c2, c3}
  FirstSize = 1
  Reserve = 1
  MaxSize = 4
  MaxEntries = 6
INVARIANTS TableIsComplete FreeListIsExact CompactionKeepsGraph BlocksAreWhole
PROPERTIES GrowthIsUrged GarbageGoes
CHECK_DEADLOCK FALSE
