SPECIFICATION AllSpec
CONSTANTS
  k1 = k1
  k2 = k2
  k3 = k3
  x = x
  V = V
  Const = Const
  KVar = {k1, k2, k3}
  Qual <- MCQual
  Place <- MCPlace
  Contra <- MCContra
  UseSimple = TRUE
  MinSol = FALSE
  Problems <- MCProblems
  Entails <- MCEntails
INVARIANTS IdleIsSatisfied SafeMeansValid UncalledAssumesNothing
PROPERTIES TakesInOrder Terminates AnswersGreatest
CHECK_DEADLOCK FALSE
