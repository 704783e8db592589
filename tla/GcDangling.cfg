SPECIFICATION AllSpec
CONSTANTS
  r1 = r1
  r2 = r2
  Parts = {"quiet"}
  MinorMin = 4
  WordSize = 2
  ChunkMin = 2
  MaxYoung = 2
  Never = 3
  WarmUp = 1
  MinorSizes = {1, 5}
  Increments = {3}
  Overheads = {1, 3}
  MaxWords = 4
  MaxCalls = 2
  MaxFinals = 1
SYMMETRY Symmetry
INVARIANT WeakNeverDangles
CHECK_DEADLOCK FALSE
