SPECIFICATION AllSpec
CONSTANTS
  NSig = 2
  MaxSent = 3
  p1 = p1
  p2 = p2
  Parts = {"signals", "interp", "roots", "debugged roots", "parsing", "debugger", "checkpoints",
           "arith", "emul", "compare", "hash"}
INVARIANTS SignalsAreSeen HandlersAreBracketed FramesAreRight ParsesTheLanguage ValuesAreRight
PROPERTIES DebuggedIsTheProgram Completes
CHECK_DEADLOCK FALSE
