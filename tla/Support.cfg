SPECIFICATION AllSpec
CONSTANTS
  Parts = {"prover", "fixprover", "heap", "tests"}
  vv = vv
  x = x
  IntSort = IntSort
  ObjSort = ObjSort
  Name = {vv, x}
  Sort = {IntSort, ObjSort}
  Value = {0, 1}
  Pred = {"v=1", "v=0", "x=1", "v=x", "v=v", "x=0"}
  VarsOf <- MCVarsOf
  Holds <- MCHolds
  VV = vv
  Tautologies = {"v=v"}
  Axiom = {"x=1", "x=0"}
  Query <- MCQuery
  AxiomEnv <- MCAxiomEnv
  MaxPushes = 10
  Env <- MCEnv
  Chain <- MCChain
  Cex = TRUE
  MaxCalls = 4
  Test = {t1, t2, t3}
  Worker = {w1, w2}
  Raises = Raises
  NoTest = NoTest
  Status = {0, 2}
  ValidExits = {0, 1}
INVARIANTS ContextIsClean AnswersAreEntailed ReportsAreComplete
PROPERTIES HeapIsQueue TestsEnd
CHECK_DEADLOCK FALSE
