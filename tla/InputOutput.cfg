SPECIFICATION AllSpec
CONSTANTS
  Size = 3
  MaxOut = 4
  MaxBlock = 4
  Dests = {0, 2}
  MaxRaises = 1
  FileLen = 6
  NewLines = {2}
  InDests = {0, 3, 5}
  MaxWant = 4
  TextLength = 3
INVARIANTS BufferIsPlaced ChannelsMirrorFiles DataIsExact
PROPERTIES StreamsAreInOrder CallsComplete
CHECK_DEADLOCK FALSE
